---------------------------- MODULE Spec2Model ----------------------------
(***************************************************************************)
(* A model of midgy's line-for-line markdown -> python tangler.            *)
(*                                                                         *)
(*  - the block lexers of src/midgy/render.py (_doctest_lexer,             *)
(*    _code_lexer, code_fence) running inside markdown-it's block          *)
(*    tokenizer, in the rule order set by Renderer.set_parser_defaults;    *)
(*  - the Renderer of src/midgy/render.py and the Python renderer of       *)
(*    src/midgy/python.py (non_code, wrap_lines, code_block, fence_pycon,  *)
(*    fence_python, get_computed_indent, render);                          *)
(*  - the fence dispatch of src/midgy/language/python.py;                  *)
(*  - the shebang and front matter rules of src/midgy/lex.py;              *)
(*  - Renderer.render_cells and walk_cells of src/midgy/render.py.         *)
(*                                                                         *)
(* A document is a sequence of lines, a line a sequence of one-character   *)
(* strings.  Line numbers are 0-based and token maps half-open, as in the  *)
(* source.  Every output character carries the place that emitted it:      *)
(* "s" for a character copied from the source, another tag for a           *)
(* character the renderer inserted.                                        *)
(***************************************************************************)
EXTENDS Integers, Sequences, FiniteSets, TLC

VARIABLES
    src,      \* the document handed to render
    cfg,      \* the renderer's dataclass fields
    tokens,   \* the parser's token list
    env,      \* the render Environment
    idx,      \* index of the next token of the forward pass (1-based)
    out,      \* the output buffer: a sequence of <<character, tag>>
    runs,     \* history: one record per prose run handed to non_code
    ret,      \* the value a called function returned
    pc        \* position of the render call

vars == <<src, cfg, tokens, env, idx, out, runs, ret, pc>>

-----------------------------------------------------------------------------
(* Characters *)

SP == " "
NL == "\n"
BS == "\\"
DQ == "\""
GT == ">"
DOT == "."
\* the grave accent of a fence marker, written as a name: SANY cannot read
\* the character itself inside a string
TICK == "bq"
PCT == "%"
COLON == ":"

\* str.isspace for the characters of the alphabet of the model
IsSpace(c) == c \in {SP, NL}

Min(a, b) == IF a < b THEN a ELSE b
Max(a, b) == IF a > b THEN a ELSE b

Spaces(n) == [i \in 1..n |-> SP]

\* s[a:b] of python, 0-based, clipped
Slice(s, a, b) == SubSeq(s, a + 1, Min(b, Len(s)))

\* s[a:]
From(s, a) == SubSeq(s, a + 1, Len(s))

RECURSIVE Flatten(_)
Flatten(ls) == IF ls = <<>> THEN <<>> ELSE Head(ls) \o Flatten(Tail(ls))

\* len(s.rstrip())
RECURSIVE RStripLen(_)
RStripLen(s) ==
    IF s = <<>> THEN 0
    ELSE IF IsSpace(s[Len(s)]) THEN RStripLen(SubSeq(s, 1, Len(s) - 1))
    ELSE Len(s)

\* len(s) - len(s.lstrip())
RECURSIVE LStripLen(_)
LStripLen(s) ==
    IF s = <<>> THEN 0
    ELSE IF IsSpace(Head(s)) THEN 1 + LStripLen(Tail(s))
    ELSE 0

\* s.lstrip()
LStrip(s) == From(s, LStripLen(s))

\* s.rstrip()
RStrip(s) == SubSeq(s, 1, RStripLen(s))

\* s.lstrip(c) for one character c
RECURSIVE LStripChar(_, _)
LStripChar(s, c) ==
    IF s # <<>> /\ Head(s) = c THEN LStripChar(Tail(s), c) ELSE s

EndsWith(s, t) ==
    Len(s) >= Len(t) /\ SubSeq(s, Len(s) - Len(t) + 1, Len(s)) = t

\* io.StringIO(s) iterated: the lines of s, each with its newline
RECURSIVE SplitLines(_, _)
SplitLines(s, cur) ==
    IF s = <<>> THEN (IF cur = <<>> THEN <<>> ELSE <<cur>>)
    ELSE IF Head(s) = NL THEN <<Append(cur, NL)>> \o SplitLines(Tail(s), <<>>)
    ELSE SplitLines(Tail(s), Append(cur, Head(s)))

\* MAGIC = compile("^\s*%{2}\S+") matched at the start of s
MagicMatch(s) ==
    LET Match(t) == Len(t) >= 3 /\ t[1] = PCT /\ t[2] = PCT /\ ~IsSpace(t[3])
    IN  Match(LStrip(s))

-----------------------------------------------------------------------------
(* markdown-it's StateBlock over a document given as lines *)

\* StateBlock.__init__ records a line at its newline or at the last character
\* of the source; leading spaces are skipped before that test, so a final
\* line of spaces without a newline is never recorded.
LineMax(s) ==
    IF s = <<>> THEN 0
    ELSE LET last == s[Len(s)]
         IN  IF last[Len(last)] # NL /\ \A i \in 1..Len(last) : last[i] = SP
             THEN Len(s) - 1
             ELSE Len(s)

\* the text of line k (0-based); the fake last entry is empty
LineAt(s, k) == IF k < Len(s) THEN s[k + 1] ELSE <<>>

\* leading spaces of a line (tShift; sCount too, the alphabet has no tab)
RECURSIVE Indent(_)
Indent(l) == IF l # <<>> /\ Head(l) = SP THEN 1 + Indent(Tail(l)) ELSE 0

sCount(s, k) == IF k < LineMax(s) THEN Indent(LineAt(s, k)) ELSE 0

\* the line without its newline: src[bMarks:eMarks]
Body(l) == IF l # <<>> /\ l[Len(l)] = NL THEN SubSeq(l, 1, Len(l) - 1) ELSE l

\* StateBlock.isEmpty: bMarks + tShift >= eMarks
isEmpty(s, k) == k >= LineMax(s) \/ Indent(LineAt(s, k)) >= Len(Body(LineAt(s, k)))

\* srcCharCode[begin : begin + n] with begin = bMarks + tShift of line k.
\* A slice that runs past the line meets its newline, which none of the
\* compared markers holds, so the line's own text decides every comparison.
Lead(s, k, n) == Slice(LineAt(s, k), Indent(LineAt(s, k)), Indent(LineAt(s, k)) + n)

RECURSIVE skipEmptyLines(_, _)
skipEmptyLines(s, k) ==
    IF k < LineMax(s) /\ isEmpty(s, k) THEN skipEmptyLines(s, k + 1) ELSE k

\* StateBlock.getLines(begin, end, indent, True): lines begin..end-1, each
\* with at most indent columns of its indentation removed
RECURSIVE getLines(_, _, _, _)
getLines(s, begin, end, indent) ==
    IF begin >= end \/ begin >= Len(s) THEN <<>>
    ELSE From(LineAt(s, begin), Min(indent, Indent(LineAt(s, begin))))
            \o getLines(s, begin + 1, end, indent)

-----------------------------------------------------------------------------
(* Tokens *)

PYTHON == <<"p", "y", "t", "h", "o", "n">>
IPYTHON == <<"i">> \o PYTHON
PYCON == <<"p", "y", "c", "o", "n">>

DOCTEST_CHARS == <<GT, GT, GT, SP>>
ELLIPSIS_CHARS == <<DOT, DOT, DOT, SP>>
QUOTE == <<DQ, DQ, DQ>>

NoMatch == [type |-> "none"]

\* a markdown-it Token with the meta the lexers add; input and output are
\* line spans, <<>> standing for None
\* content holds the arguments <<begin, end, indent>> of the getLines call
\* that sets token.content
Token(type, info, lo, hi, first, last, least, magic, input, output, content) ==
    [type |-> type, info |-> info, lo |-> lo, hi |-> hi,
     first_indent |-> first, last_indent |-> last, min_indent |-> least,
     magic |-> magic, input |-> input, output |-> output, content |-> content]

\* python's None where a token is expected
None == [type |-> "None"]

\* min(xs or [dflt]) over a set of numbers
MinOf(S, dflt) == IF S = {} THEN dflt ELSE CHOOSE m \in S : \A n \in S : m <= n

-----------------------------------------------------------------------------
(* _doctest_lexer, render.py *)

\* the while loop: r.next is the line the token ends at, r.extra the end of
\* the input span, r.output the end of the output span
RECURSIVE DoctestScan(_, _, _, _, _, _, _)
DoctestScan(s, next, end, indent, extra, output, closed) ==
    IF next >= end \/ isEmpty(s, next) \/ sCount(s, next) < indent
       \/ Lead(s, next, 4) = DOCTEST_CHARS
    THEN [next |-> next, extra |-> extra, output |-> output]
    ELSE IF ~closed /\ Lead(s, next, 4) = ELLIPSIS_CHARS
         THEN DoctestScan(s, next + 1, end, indent, next + 1, output, closed)
         ELSE DoctestScan(s, next + 1, end, indent, extra, next + 1, TRUE)

\* token.content.lstrip().lstrip(">").lstrip() of the doctest token
DoctestMagicText(s, lo, hi) ==
    LStrip(LStripChar(LStrip(getLines(s, lo, hi, 0)), GT))

\* _doctest_lexer with an input span that takes the whole token
DoctestLexer_whole(s, startLine, end) ==
    IF sCount(s, startLine) < 4 THEN NoMatch
    ELSE IF Lead(s, startLine, 4) # DOCTEST_CHARS THEN NoMatch
    ELSE LET Push(indent, r) ==
                 Token("fence", PYCON, startLine, r.next, indent, indent, indent,
                       MagicMatch(DoctestMagicText(s, startLine, r.next)),
                       <<startLine, r.next>>,
                       IF r.extra < r.output THEN <<r.extra, r.output>> ELSE <<>>,
                       <<startLine, r.next, 0>>)
             Scan(indent) ==
                 Push(indent, DoctestScan(s, startLine + 1, end, indent,
                                          startLine + 1, startLine + 1, FALSE))
         IN  Scan(sCount(s, startLine))

DoctestLexer(s, startLine, end) ==
    IF sCount(s, startLine) < 4 THEN NoMatch
    ELSE IF Lead(s, startLine, 4) # DOCTEST_CHARS THEN NoMatch
    ELSE LET Push(indent, r) ==
                 Token("fence", PYCON, startLine, r.next, indent, indent, indent,
                       MagicMatch(DoctestMagicText(s, startLine, r.next)),
                       <<startLine, r.extra>>,
                       IF r.extra < r.output THEN <<r.extra, r.output>> ELSE <<>>,
                       <<startLine, r.next, 0>>)
             Scan(indent) ==
                 Push(indent, DoctestScan(s, startLine + 1, end, indent,
                                          startLine + 1, startLine + 1, FALSE))
         IN  Scan(sCount(s, startLine))

-----------------------------------------------------------------------------
(* _code_lexer, render.py *)

\* the while loop: first_indent, last_indent and last_line as it leaves them
RECURSIVE CodeScan(_, _, _, _, _, _)
CodeScan(s, next, end, first, last, last_line) ==
    IF next >= end
    THEN [first |-> first, last |-> last, last_line |-> last_line]
    ELSE IF isEmpty(s, next)
    THEN CodeScan(s, next + 1, end, first, last, last_line)
    ELSE IF sCount(s, next) >= 4 /\ Lead(s, next, 4) # DOCTEST_CHARS
    THEN CodeScan(s, next + 1, end,
                  IF first = 0 THEN sCount(s, next) ELSE first,
                  sCount(s, next), next)
    ELSE [first |-> first, last |-> last, last_line |-> last_line]

\* _code_lexer with the indentation of the first line as min_indent
CodeLexer_first(s, start, end) ==
    IF sCount(s, start) < 4 THEN NoMatch
    ELSE LET Push(r, hi) ==
                 Token("code_block", <<>>, start, hi, r.first, r.last, r.first,
                       MagicMatch(getLines(s, start, hi, 4)), <<>>, <<>>,
                       <<start, hi, 4>>)
             Scan(r) == Push(r, r.last_line + 1)
         IN  Scan(CodeScan(s, start, end, 0, 0, start))

CodeLexer(s, start, end) ==
    IF sCount(s, start) < 4 THEN NoMatch
    ELSE LET Push(r, hi) ==
                 Token("code_block", <<>>, start, hi, r.first, r.last,
                       MinOf({sCount(s, i) : i \in {j \in start..(hi - 1) :
                                ~isEmpty(s, j) /\ sCount(s, j) # 0}}, 0),
                       MagicMatch(getLines(s, start, hi, 4)), <<>>, <<>>,
                       <<start, hi, 4>>)
             Scan(r) == Push(r, r.last_line + 1)
         IN  Scan(CodeScan(s, start, end, 0, 0, start))

-----------------------------------------------------------------------------
(* code_fence, render.py, over markdown-it's fence rule *)

\* state.skipChars(pos, marker) - pos: the run of the marker at the start of t
RECURSIVE RunLen(_, _)
RunLen(t, c) == IF t # <<>> /\ Head(t) = c THEN 1 + RunLen(Tail(t), c) ELSE 0

\* the text of line k after its indentation, without the newline
Text(s, k) == From(Body(LineAt(s, k)), Indent(LineAt(s, k)))

\* a line that closes a fence opened by a run of n markers
FenceCloses(s, k, marker, n) ==
    LET Closes(t, r) ==
            /\ t # <<>>
            /\ sCount(s, k) < 4
            /\ r >= n
            /\ \A i \in (r + 1)..Len(t) : t[i] = SP
        Run(t) == Closes(t, RunLen(t, marker))
    IN  Run(Text(s, k))

\* the search for the closing line: the line found, or end when the fence
\* is closed by the end of the document
RECURSIVE FenceScan(_, _, _, _, _)
FenceScan(s, next, end, marker, n) ==
    IF next >= end THEN [next |-> end, closed |-> FALSE]
    ELSE IF FenceCloses(s, next, marker, n) THEN [next |-> next, closed |-> TRUE]
    ELSE FenceScan(s, next + 1, end, marker, n)

CodeFence(s, startLine, end) ==
    LET Push(params, r, hi, extent) ==
            Token("fence", params, startLine, hi,
                  IF extent = {} THEN 0 ELSE sCount(s, startLine + 1),
                  IF extent = {} THEN 0 ELSE sCount(s, hi - 2),
                  MinOf({sCount(s, i) : i \in {j \in extent : ~isEmpty(s, j)}}, 0),
                  MagicMatch(getLines(s, startLine + 1, r.next,
                                      sCount(s, startLine))),
                  <<>>, <<>>,
                  <<startLine + 1, r.next, sCount(s, startLine)>>)
        Span(params, r, hi) == Push(params, r, hi, (startLine + 1)..(hi - 2))
        Close(params, r) ==
            Span(params, r, r.next + (IF r.closed THEN 1 ELSE 0))
        Open(t, marker, n, params) ==
            IF sCount(s, startLine) >= 4 \/ Len(t) < 3 THEN NoMatch
            ELSE IF marker \notin {TICK, "~"} \/ n < 3 THEN NoMatch
            ELSE IF marker = TICK /\ \E i \in 1..Len(params) : params[i] = TICK
                 THEN NoMatch
            ELSE Close(params, FenceScan(s, startLine + 1, end, marker, n))
        Run(t, marker) == Open(t, marker, RunLen(t, marker), From(t, RunLen(t, marker)))
        Marker(t) == Run(t, IF t = <<>> THEN "" ELSE t[1])
    IN  Marker(Text(s, startLine))

-----------------------------------------------------------------------------
(* markdown-it's paragraph rule and block tokenizer *)

\* None of the rules that may end a paragraph (blockquote, hr, list,
\* html_block, heading, footnote_def, deflist) matches a line of the
\* alphabet; the doctest, code and fence rules are registered without alt,
\* so they do not end a paragraph either: it runs to the next empty line.
RECURSIVE ParagraphEnd(_, _, _)
ParagraphEnd(s, next, end) ==
    IF next >= end \/ isEmpty(s, next) THEN next
    ELSE ParagraphEnd(s, next + 1, end)

Paragraph(s, startLine, end) ==
    Token("paragraph", <<>>, startLine, ParagraphEnd(s, startLine + 1, end),
          0, 0, 0, FALSE, <<>>, <<>>, <<startLine, startLine, 0>>)

\* a token that carries a markup: an hr, a heading, or a token of lex.py
LexToken(type, markup, lo, hi) ==
    Token(type, <<>>, lo, hi, 0, 0, 0, FALSE, <<>>, <<>>, <<lo, lo, 0>>)
       @@ [markup |-> markup]

\* the rules behind fence: markdown-it's hr rule, whose token.markup holds
\* the markers of the line with the spaces between them, then lheading,
\* which makes a heading of the lines down to an underline of "-", then
\* the paragraph rule, which an hr line ends
OrdinaryRules(s, startLine, end) ==
    LET Marks(t) == Len(SelectSeq(t, LAMBDA x : x = "-"))
        Break(k) ==
            /\ sCount(s, k) < 4
            /\ Text(s, k) # <<>> /\ Text(s, k)[1] = "-"
            /\ \A i \in 1..Len(Text(s, k)) : Text(s, k)[i] \in {"-", SP}
            /\ Marks(Text(s, k)) >= 3
        Underline(k) ==
            /\ sCount(s, k) < 4
            /\ RunLen(Text(s, k), "-") >= 1
            /\ \A i \in (RunLen(Text(s, k), "-") + 1)..Len(Text(s, k)) :
                  Text(s, k)[i] = SP
        RECURSIVE Heading(_)
        Heading(k) ==
            IF k >= end \/ isEmpty(s, k) THEN Paragraph(s, startLine, end)
            ELSE IF Underline(k)
            THEN LexToken("heading", <<Text(s, k)[1]>>, startLine, k + 1)
            ELSE IF Break(k)
            THEN LexToken("paragraph", <<>>, startLine, k)
            ELSE Heading(k + 1)
    IN  IF Break(startLine)
        THEN LexToken("hr", Text(s, startLine), startLine, startLine + 1)
        ELSE Heading(startLine + 1)

\* the rules with the indented code rule before the doctest rule
BlockRule_code_first(s, line, end) ==
    LET Or(a, b) == IF a # NoMatch THEN a ELSE b
    IN  Or(CodeLexer(s, line, end),
           Or(DoctestLexer(s, line, end),
              Or(CodeFence(s, line, end), OrdinaryRules(s, line, end))))

\* the rules in the order set_parser_defaults leaves them; the first that
\* matches pushes its token
BlockRule(s, line, end) ==
    LET Or(a, b) == IF a # NoMatch THEN a ELSE b
    IN  Or(DoctestLexer(s, line, end),
           Or(CodeLexer(s, line, end),
              Or(CodeFence(s, line, end), OrdinaryRules(s, line, end))))

\* ParserBlock.tokenize
RECURSIVE Tokenize(_, _)
Tokenize(s, line) ==
    LET Push(t) == <<t>> \o Tokenize(s, t.hi)
        Rule(l) == IF l >= LineMax(s) THEN <<>>
                   ELSE Push(BlockRule(s, l, LineMax(s)))
    IN  Rule(skipEmptyLines(s, line))

\* Renderer.parse
Parse(s) == Tokenize(s, 0)

\* token.content
Content(s, t) == getLines(s, t.content[1], t.content[2], t.content[3])

-----------------------------------------------------------------------------
(* Output fragments: sequences of <<character, tag>> *)

Tag(s, t) == [i \in 1..Len(s) |-> <<s[i], t>>]
Chars(f) == [i \in 1..Len(f) |-> f[i][1]]

\* ESCAPE of render.py: a backslash before every quote character
RECURSIVE Escape(_)
Escape(f) ==
    IF f = <<>> THEN <<>>
    ELSE (IF Head(f)[1] \in {DQ, "'"} THEN <<<<BS, "esc">>>> ELSE <<>>)
            \o <<Head(f)>> \o Escape(Tail(f))

\* io.StringIO(f) iterated, for a fragment
RECURSIVE SplitT(_, _)
SplitT(f, cur) ==
    IF f = <<>> THEN (IF cur = <<>> THEN <<>> ELSE <<cur>>)
    ELSE IF Head(f)[1] = NL THEN <<Append(cur, Head(f))>> \o SplitT(Tail(f), <<>>)
    ELSE SplitT(Tail(f), Append(cur, Head(f)))

-----------------------------------------------------------------------------
(* Python.wrap_lines, python.py *)

\* line 197: the blank lines before the first line with text
RECURSIVE LeadingWs(_, _, _)
LeadingWs(wl, pre, continuation) ==
    IF wl = <<>> THEN <<>>
    ELSE LET l == Head(wl)
         IN  pre \o SubSeq(l, 1, Len(l) - 1) \o continuation \o <<l[Len(l)]>>
                \o LeadingWs(Tail(wl), pre, continuation)

\* line 206: what follows the last line with text, when it ends with a backslash
RECURSIVE TrailingWs(_, _, _)
TrailingWs(wl, pre, i) ==
    IF wl = <<>> THEN <<>>
    ELSE LET l == Head(wl)
         IN  (IF i > 0 THEN pre ELSE <<>>) \o SubSeq(l, 1, Len(l) - 1)
                \o (IF i > 0 THEN <<<<BS, "cont">>>> ELSE <<>>) \o <<l[Len(l)]>>
                \o TrailingWs(Tail(wl), pre, i + 1)

\* the for loop of wrap_lines
RECURSIVE WrapLoop(_, _, _, _, _, _, _, _)
WrapLoop(lines, lead, pre, continuation, ws, any, continued, acc) ==
    IF lines = <<>>
    THEN [ws |-> ws, any |-> any, continued |-> continued, acc |-> acc]
    ELSE LET Keep(line, c, LL) ==
                 WrapLoop(Tail(lines), <<>>, pre, continuation,
                          From(line, LL), TRUE, c,
                          acc \o (IF any THEN ws
                                  ELSE LeadingWs(SplitT(ws, <<>>), pre, continuation))
                              \o pre \o lead \o SubSeq(line, 1, LL))
             Cont(line, LL0, c) == Keep(line, c, IF c THEN LL0 - 1 ELSE LL0)
             Line(line, LL0) ==
                 IF LL0 > 0 THEN Cont(line, LL0, line[LL0][1] = BS)
                 ELSE WrapLoop(Tail(lines), lead, pre, continuation,
                               ws \o line, any, continued, acc)
         IN  Line(Head(lines), RStripLen(Chars(Head(lines))))

wrap_lines(lines, lead, pre, trail, continuation) ==
    LET End(r) ==
            r.acc \o (IF r.any THEN trail ELSE <<>>)
                  \o (IF r.continued THEN TrailingWs(SplitT(r.ws, <<>>), pre, 0)
                      ELSE r.ws)
    IN  End(WrapLoop(lines, lead, pre, continuation, <<>>, FALSE, FALSE, <<>>))

-----------------------------------------------------------------------------
(* The Environment and the block reader, render.py *)

\* get_computed_indent with the comparison of the two indents slipped to >=
get_computed_indent_ge(e) ==
    LET next_indent  == IF e.next_code # None THEN e.next_code.first_indent ELSE 0
        spaces == IF e.colon_block
                  THEN (IF next_indent >= e.last_indent THEN next_indent
                        ELSE e.last_indent + 4)
                  ELSE e.last_indent
    IN  Max(spaces, e.min_indent) - e.min_indent

\* Python.get_computed_indent.  A key the dict lacks reads as its default
\* (0, False, None), which is the value the record holds for it.
get_computed_indent(e) ==
    LET next_indent  == IF e.next_code # None THEN e.next_code.first_indent ELSE 0
        prior_indent == e.last_indent
        spaces == IF e.colon_block
                  THEN (IF next_indent > prior_indent THEN next_indent
                        ELSE prior_indent + 4)
                  ELSE prior_indent
    IN  Max(spaces, e.min_indent) - e.min_indent

\* Python.get_indent of language/python.py, whose Environment keeps the
\* colon flag under the key "indented"
get_indent(e) ==
    LET indent == Max(e.last_indent, e.min_indent)
        deeper == IF e.next_code # None /\ e.next_code.first_indent > indent
                  THEN e.next_code.first_indent
                  ELSE indent + 4
    IN  (IF e.indented THEN deeper ELSE indent) - e.min_indent

\* Renderer.readline: the next line of the source, "" at its end
ReadLine(s, k) == IF k < Len(s) THEN Tag(s[k + 1], "s") ELSE <<>>

\* get_block with an "if" for its "while": at most one readline
get_block_once(s, e, stop) ==
    IF e.last_line < stop
    THEN [lines |-> <<ReadLine(s, e.pos)>>,
          e |-> [e EXCEPT !.last_line = @ + 1, !.pos = Min(Len(s), @ + 1)]]
    ELSE [lines |-> <<>>, e |-> e]

\* Renderer.get_block(env, stop): readline while last_line is before stop;
\* a readline moves the source on by a line, up to its end, and adds one to
\* last_line
get_block(s, e, stop) ==
    LET RECURSIVE While(_, _)
        While(e1, lines) ==
            IF e1.last_line < stop
            THEN While([e1 EXCEPT !.last_line = @ + 1, !.pos = Min(Len(s), @ + 1)],
                       Append(lines, ReadLine(s, e1.pos)))
            ELSE [lines |-> lines, e |-> e1]
    IN  While(e, <<>>)

\* get_block(env, None) that stops behind one line
get_rest_line(s, e) ==
    [lines |-> [i \in 1..Min(1, Len(s) - e.pos) |-> ReadLine(s, e.pos + i - 1)],
     e |-> [e EXCEPT !.pos = Min(Len(s), @ + 1)]]

\* Renderer.get_block(env, None): the rest of the source, last_line untouched
get_rest(s, e) ==
    [lines |-> [i \in 1..(Len(s) - e.pos) |-> ReadLine(s, e.pos + i - 1)],
     e |-> [e EXCEPT !.pos = Len(s)]]

\* Python.dedent_block: x[dedent:] for every line
dedent_block(lines, dedent) == [i \in 1..Len(lines) |-> From(lines[i], dedent)]

\* get_updated_env with flags that stay set once a code token has set them
get_updated_env_sticky(s, t, e) ==
    LET Update(left) ==
            [e EXCEPT !.colon_block = @ \/ EndsWith(left, <<COLON>>),
                      !.quoted_block = @ \/ EndsWith(left, QUOTE)
                                          \/ EndsWith(left, <<"'", "'", "'">>),
                      !.continued = @ \/ EndsWith(left, <<BS>>)]
    IN  Update(RStrip(Content(s, t)))

\* Renderer.get_updated_env
get_updated_env(s, t, e) ==
    LET Update(left) ==
            [e EXCEPT !.colon_block = EndsWith(left, <<COLON>>),
                      !.quoted_block = EndsWith(left, QUOTE)
                                          \/ EndsWith(left, <<"'", "'", "'">>),
                      !.continued = EndsWith(left, <<BS>>)]
    IN  Update(RStrip(Content(s, t)))

-----------------------------------------------------------------------------
(* The generators of python.py.  A generator state st holds the            *)
(* Environment e, the output o, the history r of prose runs and x, whether *)
(* an exception has left the render.                                       *)

\* Python.comment
comment(lines, e) ==
    wrap_lines(lines, <<>>, Tag(Spaces(get_computed_indent(e)) \o <<"#", SP>>, "pre"),
               <<>>, <<>>)

\* the terminator put behind every prose run, whatever follows it
Terminator_always(next) == <<";">>

\* Python.non_code_block_string: trail += "" if next else ";"
Terminator(next) == IF next = None THEN <<";">> ELSE <<>>

\* Python.non_code over Renderer.non_code; next is a token or None
non_code(s, c, st, next) ==
    LET Emit(b, indent, mode, frag) ==
            [st EXCEPT !.e = IF next = None THEN b.e
                             ELSE [b.e EXCEPT !.last_indent = next.last_indent],
                       !.o = @ \o frag,
                       !.r = Append(@, [mode |-> mode, final |-> next = None,
                                        indent |-> indent,
                                        lo |-> st.e.pos, hi |-> b.e.pos,
                                        a |-> Len(st.o) + 1,
                                        b |-> Len(st.o) + Len(frag)])]
        Wrap(b, indent, mode) ==
            Emit(b, indent, mode,
                 CASE mode = "quoted" ->
                        wrap_lines(b.lines, <<>>, <<>>, <<>>, <<>>)
                   [] mode = "string" ->
                        wrap_lines([i \in 1..Len(b.lines) |-> Escape(b.lines[i])],
                                   Tag(Spaces(indent) \o QUOTE, "lead"), <<>>,
                                   Tag(QUOTE \o Terminator(next), "trail"),
                                   IF st.e.continued THEN <<<<BS, "cont">>>> ELSE <<>>)
                   [] OTHER -> wrap_lines(b.lines, <<>>,
                                          Tag(Spaces(indent) \o <<"#", SP>>, "pre"),
                                          <<>>, <<>>))
    IN  Wrap(IF next = None THEN get_rest(s, st.e) ELSE get_block(s, st.e, next.lo),
             get_computed_indent(st.e),
             IF st.e.quoted_block THEN "quoted"
             ELSE IF c.include_markdown THEN "string" ELSE "comment")

\* left.lstrip().lstrip("%").partition(" ") of code_block_magic
MagicWords(line) ==
    LET Parts(left, l2, cut) ==
            [program |-> SubSeq(l2, 1, cut - 1), args |-> From(l2, cut),
             rest |-> From(line, Len(left))]
        Partition(left, l2) ==
            Parts(left, l2, MinOf({i \in 1..Len(l2) : l2[i][1] = SP}, Len(l2) + 1))
        Percent(left, l1) == Partition(left, From(l1, RunLen(Chars(l1), PCT)))
        Left(left) == Percent(left, From(left, LStripLen(Chars(left))))
    IN  Left(SubSeq(line, 1, RStripLen(Chars(line))))

\* Python.code_block_magic over the lines of block; next(block) on an empty
\* block raises StopIteration inside the generator
code_block_magic(st, block, indent, dedent) ==
    IF block = <<>> THEN [st EXCEPT !.x = TRUE]
    ELSE LET Call(w, body) ==
                 [st EXCEPT !.o = @ \o Tag(Spaces(get_computed_indent(st.e)), "ind")
                        \o <<<<"get_ipython().run_cell_magic('", "magic">>>>
                        \o w.program \o <<<<"', '", "magic">>>> \o w.args
                        \o <<<<"',", "magic">>>> \o w.rest
                        \o wrap_lines(body, Tag(QUOTE, "lead"), <<>>,
                                      Tag(QUOTE \o <<")">>, "trail"), <<>>)]
         IN  Call(MagicWords(Head(block)),
                  IF dedent THEN dedent_block(Tail(block), indent) ELSE Tail(block))

\* Python.is_magic
is_magic(c, t) ==
    (c.include_magic /\ t.magic) \/ (t.type = "fence" /\ t.info = IPYTHON)

\* Python.code_block_body
code_block_body(c, st, block, t) ==
    IF is_magic(c, t) THEN code_block_magic(st, block, t.min_indent, TRUE)
    ELSE [st EXCEPT !.o = @ \o Flatten(dedent_block(block, st.e.min_indent))]

\* Renderer.is_code_block
is_code_block(c, t) ==
    \/ c.include_indented_code /\ t.type = "code_block"
    \/ t.type = "fence" /\ (t.info \in c.include_code_fences
                            \/ (c.include_doctest /\ t.info = PYCON))

\* Python.code_block
code_block(s, c, st, t) ==
    IF ~c.include_indented_code THEN st
    ELSE LET Update(s2) ==
                 IF s2.x THEN s2 ELSE [s2 EXCEPT !.e = get_updated_env(s, t, @)]
             Dedented(s1, b) ==
                 Update(code_block_body(c, [s1 EXCEPT !.e = b.e], b.lines, t))
             Block(s1) == Dedented(s1, get_block(s, s1.e, t.hi))
         IN  Block(non_code(s, c, st, t))

\* doctest_code_input with the prompt cut after its three marker characters
doctest_code_input_3(lines, e) ==
    [i \in 1..Len(lines) |->
        LET line == lines[i]
            n == LStripLen(Chars(line))
        IN  Slice(line, e.min_indent, n) \o From(line, n + 3)]

\* Python.doctest_code_input: the prompt's four characters and min_indent
\* columns leave every line of the input span
doctest_code_input(lines, e) ==
    [i \in 1..Len(lines) |->
        LET line == lines[i]
            n == LStripLen(Chars(line))
        IN  Slice(line, e.min_indent, n) \o From(line, n + 4)]

\* Python.doctest_code; a token without meta["input"] raises KeyError
doctest_code(s, c, st, t) ==
    LET Update(s3) ==
            [s3 EXCEPT !.e = [get_updated_env(s, t, @) EXCEPT
                                !.colon_block = FALSE,
                                !.quoted_block = FALSE,
                                !.continued = FALSE]]
        Comment(s2, bo) ==
            Update([s2 EXCEPT !.e = bo.e,
                      !.o = @ \o comment(dedent_block(bo.lines, t.min_indent), bo.e)])
        Output(s2) ==
            IF s2.x THEN s2
            ELSE IF t.output # <<>> THEN Comment(s2, get_block(s, s2.e, t.output[2]))
            ELSE Update(s2)
        Source(s1, b, inp) ==
            Output(IF t.magic
                   THEN code_block_magic([s1 EXCEPT !.e = b.e], inp, t.min_indent, FALSE)
                   ELSE [s1 EXCEPT !.e = b.e, !.o = @ \o Flatten(inp)])
        Input(s1, b) == Source(s1, b, doctest_code_input(b.lines, b.e))
        Block(s1) ==
            IF t.input = <<>> THEN [s1 EXCEPT !.x = TRUE]
            ELSE Input(s1, get_block(s, s1.e, t.input[2]))
    IN  Block(non_code(s, c, st, t))

\* Python.doctest_comment
doctest_comment(s, c, st, t) ==
    LET Comment(s1, b) == [s1 EXCEPT !.e = b.e, !.o = @ \o comment(b.lines, b.e)]
        Block(s1) == Comment(s1, get_block(s, s1.e, t.hi))
    IN  Block(non_code(s, c, st, t))

\* fence_pycon that comments the doctest whenever it is not code
fence_pycon_comment(s, c, st, t) ==
    IF c.include_doctest THEN doctest_code(s, c, non_code(s, c, st, t), t)
    ELSE doctest_comment(s, c, st, t)

\* Python.fence_pycon
fence_pycon(s, c, st, t) ==
    IF c.include_doctest THEN doctest_code(s, c, non_code(s, c, st, t), t)
    ELSE IF c.include_docstring /\ c.include_markdown THEN st
    ELSE doctest_comment(s, c, st, t)

\* Python.fence_python
fence_python(s, c, st, t) ==
    IF t.info \notin c.include_code_fences THEN st
    ELSE LET Close(s3, b3) ==
                 [s3 EXCEPT !.e = b3.e, !.o = @ \o comment(b3.lines, b3.e)]
             Update(s3) ==
                 IF s3.x THEN s3
                 ELSE Close(s3, get_block(s, get_updated_env(s, t, s3.e), t.hi))
             Dedented(s2, b2) ==
                 Update(code_block_body(c, [s2 EXCEPT !.e = b2.e], b2.lines, t))
             Source(s2) == Dedented(s2, get_block(s, s2.e, t.hi - 1))
             Open(s1, b1) ==
                 Source([s1 EXCEPT !.e = b1.e, !.o = @ \o comment(b1.lines, b1.e)])
             Fence(s1) == Open(s1, get_block(s, s1.e, t.lo + 1))
         IN  Fence(non_code(s, c, st, t))

-----------------------------------------------------------------------------
(* Documents and configurations *)

\* the longest document, in lines
MaxLines == 3

Prose      == <<"x", NL>>
ProseCont  == <<DQ, "x", BS, NL>>
Blank      == <<NL>>
Code       == Spaces(4) \o <<"x", NL>>
CodeColon  == Spaces(4) \o <<"x", COLON, NL>>
CodeDeep   == Spaces(8) \o <<"x", NL>>
CodeQuote  == Spaces(4) \o QUOTE \o <<NL>>
CodeMagic  == Spaces(4) \o <<PCT, PCT, "m", SP, "a", NL>>
Prompt     == Spaces(4) \o DOCTEST_CHARS \o <<"x", NL>>
PromptMagic == Spaces(4) \o DOCTEST_CHARS \o <<PCT, PCT, "m", NL>>
PromptColon == Spaces(4) \o DOCTEST_CHARS \o <<"x", COLON, NL>>
Ellipsis   == Spaces(4) \o ELLIPSIS_CHARS \o <<"x", NL>>
FenceOpen  == <<TICK, TICK, TICK>> \o PYTHON \o <<NL>>
FenceClose == <<TICK, TICK, TICK, NL>>
FenceMagic == <<PCT, PCT, "m", NL>>

\* the lines documents are made of
Catalog ==
    {Prose, ProseCont, Blank, Code, CodeColon, CodeDeep, CodeQuote, CodeMagic,
     Prompt, PromptMagic, Ellipsis, FenceOpen, FenceClose, FenceMagic}

\* a last line without its newline
Unterminated == {<<"x">>}

\* longer documents: prose around a code block, which takes a blank line
\* between the paragraph and the block
Examples ==
    {<<Prose, Blank, Code, Prose>>,
     <<Prose, Blank, CodeColon, Blank, Prose>>,
     <<Prose, Blank, Prompt, Ellipsis, Prose>>,
     <<PromptColon, Blank, Prose>>,
     <<CodeColon, Blank, PromptColon, Blank, Prose>>,
     <<CodeColon, <<TICK, TICK, TICK>> \o IPYTHON \o <<NL>>, FenceClose>>}

Docs ==
    UNION {[1..n -> Catalog] : n \in 0..MaxLines}
      \cup Examples
      \cup {d \o <<u>> : d \in UNION {[1..n -> Catalog] : n \in 0..(MaxLines - 1)},
                         u \in Unterminated}

\* the fields of the Python dataclass, python.py lines 16-25
Config(markdown, doctest, docstring) ==
    [include_docstring |-> docstring, include_doctest |-> doctest,
     include_front_matter |-> TRUE, include_markdown |-> markdown,
     include_code_fences |-> {PYTHON, IPYTHON}, include_magic |-> TRUE,
     include_indented_code |-> TRUE]

Configs ==
    {Config(TRUE, FALSE, TRUE), Config(FALSE, FALSE, TRUE),
     Config(TRUE, TRUE, TRUE), Config(FALSE, TRUE, TRUE),
     Config(TRUE, FALSE, FALSE)}

-----------------------------------------------------------------------------
(* The render call *)

\* the env of Python.render's magic branch, {}: every key reads as its default
EmptyEnv ==
    [pos |-> 0, last_line |-> 0, last_indent |-> 0, min_indent |-> 0,
     colon_block |-> FALSE, quoted_block |-> FALSE, continued |-> FALSE,
     next_code |-> None]

\* Renderer.get_initial_env
get_initial_env(c, toks) ==
    [EmptyEnv EXCEPT !.min_indent =
        MinOf({toks[i].min_indent : i \in {j \in 1..Len(toks) : is_code_block(c, toks[j])}},
              0)]

\* Renderer.walk_code_blocks: the code token of the pair token i belongs to
next_code_of(c, toks, i) ==
    LET First(later) == IF later = {} THEN None ELSE toks[MinOf(later, 0)]
    IN  First({j \in i..Len(toks) : is_code_block(c, toks[j])})

\* textwrap.dedent: the common indentation of the lines with text leaves
\* every line, and a line of spaces keeps only its newline
Dedent(s) ==
    LET text   == {i \in 1..Len(s) : Indent(s[i]) < Len(Body(s[i]))}
        margin == MinOf({Indent(s[i]) : i \in text}, 0)
    IN  [i \in 1..Len(s) |->
            IF i \in text THEN From(s[i], margin) ELSE From(s[i], Len(Body(s[i])))]

Init ==
    /\ src \in Docs
    /\ cfg \in Configs
    /\ tokens = <<>>
    /\ env = EmptyEnv
    /\ idx = 0
    /\ out = <<>>
    /\ runs = <<>>
    /\ ret = None
    /\ pc = "start"

\* Python.render, the branch of a source that starts with a cell magic
RenderMagic ==
    /\ pc = "start"
    /\ MagicMatch(Flatten(src))
    /\ LET Yield(st) ==
               /\ out' = st.o
               /\ pc' = IF st.x THEN "raised" ELSE "done"
           Magic(d) ==
               Yield(code_block_magic([e |-> EmptyEnv, o |-> <<>>, r |-> <<>>,
                                       x |-> FALSE],
                                      [i \in 1..Len(d) |-> Tag(d[i], "s")], 0, TRUE))
       IN  Magic(Dedent(src))
    /\ UNCHANGED <<src, cfg, tokens, env, idx, runs, ret>>

\* Renderer.render: parse, then the start of render_tokens
Begin ==
    /\ pc = "start"
    /\ ~MagicMatch(Flatten(src))
    /\ tokens' = Parse(src)
    /\ env' = get_initial_env(cfg, tokens')
    /\ idx' = 1
    /\ pc' = "tokens"
    /\ UNCHANGED <<src, cfg, out, runs, ret>>

\* the generator state a handler of render_tokens starts from: the env
\* with the next_code that walk_code_blocks pairs the token with
Before ==
    [e |-> [env EXCEPT !.next_code = next_code_of(cfg, tokens, idx)],
     o |-> out, r |-> runs, x |-> FALSE]

\* one pass of the inner loop of render_tokens; st is what the handler left
Handle(st) ==
    /\ env' = st.e
    /\ out' = st.o
    /\ runs' = st.r
    /\ idx' = idx + 1
    /\ pc' = IF st.x THEN "raised" ELSE "tokens"
    /\ UNCHANGED <<src, cfg, tokens, ret>>

\* a token type without a method, or a fence without a fence_<info> method
no_method(s, c, st, t) == st

RenderCodeBlock ==
    /\ pc = "tokens" /\ idx <= Len(tokens)
    /\ tokens[idx].type = "code_block"
    /\ Handle(code_block(src, cfg, Before, tokens[idx]))

RenderFencePycon ==
    /\ pc = "tokens" /\ idx <= Len(tokens)
    /\ tokens[idx].type = "fence" /\ tokens[idx].info = PYCON
    /\ Handle(fence_pycon(src, cfg, Before, tokens[idx]))

RenderFencePython ==
    /\ pc = "tokens" /\ idx <= Len(tokens)
    /\ tokens[idx].type = "fence" /\ tokens[idx].info = PYTHON
    /\ Handle(fence_python(src, cfg, Before, tokens[idx]))

RenderOther ==
    /\ pc = "tokens" /\ idx <= Len(tokens)
    /\ \/ tokens[idx].type \notin {"code_block", "fence"}
       \/ tokens[idx].type = "fence" /\ tokens[idx].info \notin {PYCON, PYTHON}
    /\ Handle(no_method(src, cfg, Before, tokens[idx]))

\* the end of render_tokens: what is left in the buffer
Flush ==
    /\ pc = "tokens" /\ idx > Len(tokens)
    /\ LET Yield(st) ==
               /\ env' = st.e
               /\ out' = st.o
               /\ runs' = st.r
       IN  Yield(non_code(src, cfg,
                          [e |-> [env EXCEPT !.next_code = None], o |-> out,
                           r |-> runs, x |-> FALSE], None))
    /\ pc' = "done"
    /\ UNCHANGED <<src, cfg, tokens, idx, ret>>

Next ==
    \/ RenderMagic
    \/ Begin
    \/ RenderCodeBlock
    \/ RenderFencePycon
    \/ RenderFencePython
    \/ RenderOther
    \/ Flush

Spec == Init /\ [][Next]_vars

-----------------------------------------------------------------------------
(* The prose indent as a function of the Environment, python.py *)

\* the largest indentation statistic of an Environment
MaxIndent == 8

\* a code token as far as get_computed_indent reads it
NextCode(first) ==
    Token("code_block", <<>>, 0, 1, first, first, first, FALSE, <<>>, <<>>, <<0, 1, 4>>)

InitIndent ==
    /\ src = <<>>
    /\ cfg = Config(TRUE, FALSE, TRUE)
    /\ tokens = <<>>
    /\ env \in {[EmptyEnv EXCEPT !.last_indent = l, !.min_indent = m,
                                 !.colon_block = c, !.next_code = n] :
                   l \in 0..MaxIndent, m \in 0..MaxIndent, c \in BOOLEAN,
                   n \in {None} \cup {NextCode(f) : f \in 0..MaxIndent}}
    /\ idx = 0
    /\ out = <<>>
    /\ runs = <<>>
    /\ ret = None
    /\ pc = "call"

\* a call of Python.get_computed_indent(env)
ComputedIndent ==
    /\ pc = "call"
    /\ ret' = get_computed_indent(env)
    /\ pc' = "returned"
    /\ UNCHANGED <<src, cfg, tokens, env, idx, out, runs>>

\* a call of get_indent(env) of language/python.py, whose Environment keeps
\* the colon flag under the key "indented"
LangIndent ==
    /\ pc = "call"
    /\ ret' = get_indent([last_indent |-> env.last_indent,
                          min_indent |-> env.min_indent,
                          indented |-> env.colon_block,
                          next_code |-> env.next_code])
    /\ pc' = "indent"
    /\ UNCHANGED <<src, cfg, tokens, env, idx, out, runs>>

NextIndent ==
    \/ ComputedIndent
    \/ LangIndent

SpecIndent == InitIndent /\ [][NextIndent]_vars

-----------------------------------------------------------------------------
(* The fence dispatch of language/python.py over tangle.py.  A generator  *)
(* state st holds the Environment e, the output o and x, whether an        *)
(* exception has left the render.                                          *)

JSON == <<"j", "s", "o", "n">>

\* Python.fence_methods: "module:function" references by info-string
fence_methods ==
    [l \in {JSON, <<"!">>} |->
        IF l = JSON THEN JSON \o <<COLON>> \o <<"l", "o", "a", "d", "s">>
        ELSE <<"m", "i", "d", "g", "y">> \o <<COLON>> \o <<"_", "s", "h">>]

\* Python.fenced_code_blocks, the default allow-list
fenced_code_blocks ==
    {PYTHON, PYTHON \o <<"3">>, IPYTHON \o <<"3">>, IPYTHON, <<>>}

\* Python.get_lang: the first word of the info-string, "" when it has none
get_lang(info) ==
    LET RECURSIVE Word(_)
        Word(t) == IF t = <<>> \/ IsSpace(Head(t)) THEN <<>>
                   ELSE <<Head(t)>> \o Word(Tail(t))
    IN  Word(LStrip(info))

\* Tangle.is_code_block: an empty info-string reads as "%"
tangle_is_code_block(c, t) ==
    \/ c.indented_code_blocks /\ t.type = "code_block"
    \/ /\ t.type = "fence"
       /\ (IF t.info = <<>> THEN <<PCT>> ELSE get_lang(t.info))
             \in c.fenced_code_blocks

\* Python.is_code_block of language/python.py
lang_is_code_block(c, t) ==
    \/ tangle_is_code_block(c, t)
    \/ t.is_doctest /\ c.doctest_code_blocks

\* lexers.code_fence_lexer: the token of the fence rule with the statistics
\* of the lines between its markers and the classification of the last of
\* them; is_doctest is an input of the model
code_fence_lexer(s, t, doctest) ==
    LET Meta(markup, left) ==
            [type |-> t.type, info |-> t.info, markup |-> markup,
             lo |-> t.lo, hi |-> t.hi, first_indent |-> t.first_indent,
             last_indent |-> t.last_indent, min_indent |-> t.min_indent,
             is_magic |-> t.magic,
             is_doctest |-> t.type = "fence" /\ doctest,
             is_quoted |-> EndsWith(left, QUOTE),
             is_continued |-> EndsWith(left, <<BS>>),
             is_indented |-> EndsWith(left, <<COLON>>),
             next_code |-> None]
    IN  Meta(IF t.type = "fence" THEN Text(s, t.lo)[1] ELSE "",
             RStrip(Content(s, t)))

\* Python.parse: the tokens of the block rules; a paragraph stands for its
\* paragraph_open, inline and paragraph_close tokens, none of which has a
\* handler
lang_parse(s, doctest) ==
    LET Each(toks) == [i \in 1..Len(toks) |-> code_fence_lexer(s, toks[i], doctest)]
    IN  Each(Parse(s))

\* postlex with the two statements of the loop body in the other order
postlex_self(c, toks) ==
    LET RECURSIVE Back(_, _, _)
        Back(i, code, acc) ==
            IF i = 0 THEN acc
            ELSE IF lang_is_code_block(c, toks[i])
            THEN Back(i - 1, toks[i], <<[toks[i] EXCEPT !.next_code = toks[i]]>> \o acc)
            ELSE Back(i - 1, code, <<[toks[i] EXCEPT !.next_code = code]>> \o acc)
    IN  Back(Len(toks), None, <<>>)

\* Python.postlex: the loop over tokens[::-1]; code is the code token seen
\* last, a token of the list as parse left it
postlex(c, toks) ==
    LET RECURSIVE Back(_, _, _)
        Back(i, code, acc) ==
            IF i = 0 THEN acc
            ELSE Back(i - 1,
                      IF lang_is_code_block(c, toks[i]) THEN toks[i] ELSE code,
                      <<[toks[i] EXCEPT !.next_code = code]>> \o acc)
    IN  Back(Len(toks), None, <<>>)

\* Tangle.initialize_env
initialize_env(c, toks) ==
    [pos |-> 0, last_line |-> 0, last_indent |-> 0,
     min_indent |->
        MinOf({toks[i].min_indent :
                 i \in {j \in 1..Len(toks) :
                          lang_is_code_block(c, toks[j]) /\ ~toks[j].is_magic}}, 0),
     whitespace |-> <<>>, quoted |-> FALSE, continued |-> FALSE,
     indented |-> FALSE, next_code |-> None]

\* Tangle.generate_block_lines(env, stop); stop is <<n>> for the line n and
\* <<>> for None
generate_block_lines(s, e, stop) ==
    IF stop = <<>> THEN get_rest(s, e) ELSE get_block(s, e, stop[1])

\* Tangle.generate_dedent_block: x[dedent:] if len(x) > 1 else x
generate_dedent_block(lines, dedent) ==
    [i \in 1..Len(lines) |->
        IF Len(lines[i]) > 1 THEN From(lines[i], dedent) ELSE lines[i]]

\* Python.escape: a backslash before every backslash and double quote
RECURSIVE escape(_)
escape(f) ==
    IF f = <<>> THEN <<>>
    ELSE (IF Head(f)[1] \in {BS, DQ} THEN <<<<BS, "esc">>>> ELSE <<>>)
            \o <<Head(f)>> \o escape(Tail(f))

\* Python.noncode_whitespace: the newlines of the buffered whitespace, each
\* behind a continuation while env["continued"] is set
noncode_whitespace(st) ==
    LET Line(l, indent) ==
            IF l[Len(l)][1] # NL THEN <<>>
            ELSE (IF st.e.continued
                  THEN Tag(Spaces(indent), "ind") \o <<<<BS, "cont">>>>
                  ELSE <<>>) \o <<l[Len(l)]>>
        Lines(wl, indent) == Flatten([i \in 1..Len(wl) |-> Line(wl[i], indent)])
    IN  [st EXCEPT !.o = @ \o Lines(SplitT(st.e.whitespace, <<>>), get_indent(st.e)),
                   !.e.whitespace = <<>>]

\* Python.generate_comment; COMMENT_MARKER is a string
generate_comment(st, lines) ==
    LET RECURSIVE Loop(_, _)
        Loop(s1, ls) ==
            IF ls = <<>> THEN s1
            ELSE IF RStripLen(Chars(Head(ls))) > 0
            THEN Loop([noncode_whitespace(s1) EXCEPT
                         !.o = @ \o Tag(<<"#", SP, SP>>, "cmt") \o Head(ls)],
                      Tail(ls))
            ELSE Loop([s1 EXCEPT !.e.whitespace = @ \o Head(ls)], Tail(ls))
    IN  noncode_whitespace(Loop(noncode_whitespace(st), lines))

\* Python.noncode_string with its default arguments; env["hanging"] is never
\* set.  last: next_block is None
noncode_string(c, st, lines, last) ==
    LET Quotes(e, f) ==
            IF e.quoted THEN <<>>
            ELSE IF c.include_quote_parenthesis THEN f ELSE Tag(QUOTE, "q")
        Trail(s1, ws) == noncode_whitespace([s1 EXCEPT !.e.whitespace = @ \o ws])
        Closed(s1, text) ==
            IF text = <<>> THEN s1
            ELSE [s1 EXCEPT !.o = @ \o text
                     \o Quotes(s1.e, Tag(QUOTE, "q") \o Tag(<<")">>, "paren"))
                     \o (IF last THEN Tag(<<";">>, "term") ELSE <<>>)]
        Opened(s1, text) ==
            Closed([s1 EXCEPT !.o = @ \o Tag(Spaces(get_indent(s1.e)), "ind")
                        \o Quotes(s1.e, Tag(<<"(">>, "paren") \o Tag(QUOTE, "q"))],
                   text)
        Continued(s1, text, cont) ==
            Opened([s1 EXCEPT !.e.continued = cont],
                   IF cont THEN SubSeq(text, 1, Len(text) - 2) ELSE text)
        Escaped(s1, text, ws) ==
            IF text = <<>> THEN Trail(s1, ws)
            ELSE Trail(Continued(noncode_whitespace(s1), text,
                                 text[Len(text)][1] = BS), ws)
        Strip(block, start, n) ==
            Escaped([st EXCEPT !.e.whitespace = @ \o Tag(SubSeq(block, 1, start), "s")],
                    escape(Tag(SubSeq(block, start + 1, start + n), "s")),
                    Tag(From(block, start + n), "s"))
        Left(block, start) == Strip(block, start, RStripLen(From(block, start)))
        Block(block) == Left(block, LStripLen(block))
    IN  Block(Flatten(Dedent([i \in 1..Len(lines) |-> Chars(lines[i])])))

\* Python.noncode_block(env, next), next a token or None; env["comment"] is
\* never set
noncode_block(s, c, st, next) ==
    LET Render(b) ==
            IF ~c.noncode_blocks
            THEN generate_comment([st EXCEPT !.e = b.e], b.lines)
            ELSE noncode_string(c, [st EXCEPT !.e = b.e], b.lines, next = None)
    IN  Render(generate_block_lines(s, st.e, IF next = None THEN <<>> ELSE <<next.lo>>))

\* Python.update_env
update_env(t, e) ==
    [e EXCEPT !.quoted = t.is_quoted, !.continued = t.is_continued,
              !.indented = t.is_indented, !.last_indent = t.last_indent,
              !.next_code = t.next_code]

\* Python.cell_magic over the lines of a fence; next(block) on no line is a
\* StopIteration the generator turns into a RuntimeError
cell_magic(st, t, lines) ==
    LET RECURSIVE Word(_)
        Word(w) == IF w = <<>> \/ IsSpace(Head(w)) THEN <<>>
                   ELSE <<Head(w)>> \o Word(Tail(w))
        Body2(cell, n) ==
            Tag(QUOTE, "mq") \o escape(SubSeq(cell, 1, n)) \o Tag(QUOTE, "mq")
               \o Tag(<<")">>, "mparen") \o From(cell, n)
        Cell(cell) == Body2(cell, RStripLen(Chars(cell)))
        Call(first, prog, rest) ==
            Tag(Spaces(get_indent(st.e)), "ind")
               \o <<<<"get_ipython().run_cell_magic(", "magic">>>>
               \o Tag(prog, "magic") \o <<<<",", "magic">>>>
               \o Tag(LStrip(rest), "magic") \o <<<<",", "magic">>>>
               \o Tag(<<"#", SP>>, "cmt") \o first
               \o Cell(Flatten(generate_dedent_block(Tail(lines), t.min_indent)))
        Split(first, text) == Call(first, Word(text), From(text, Len(Word(text))))
        First(first) ==
            Split(first, LStripChar(RStrip(LStrip(Chars(first))), PCT))
    IN  IF lines = <<>> THEN [st EXCEPT !.x = TRUE]
        ELSE [st EXCEPT !.o = @ \o First(Head(lines))]

\* Python.fence_code
fence_code(s, c, st, t) ==
    LET Update(s4) ==
            [s4 EXCEPT !.e = [update_env(t, @) EXCEPT !.quoted = FALSE,
                                                      !.continued = FALSE]]
        Last(s3, b) ==
            Update([s3 EXCEPT !.e = b.e,
                              !.o = @ \o Tag(<<"#", SP>>, "code") \o Flatten(b.lines)])
        Close(s3) ==
            IF s3.x THEN s3
            ELSE Last(s3, generate_block_lines(s, s3.e, <<t.hi>>))
        Content2(s2, b) ==
            Close(IF c.include_magic /\ t.is_magic
                  THEN cell_magic([s2 EXCEPT !.e = b.e], t, b.lines)
                  ELSE [s2 EXCEPT !.e = b.e,
                           !.o = @ \o Flatten(generate_dedent_block(
                                                 b.lines, s2.e.min_indent))])
        Open(b) ==
            Content2([st EXCEPT !.e = b.e,
                        !.o = @ \o Tag(<<"#", SP>>, "code") \o Flatten(b.lines)],
                     generate_block_lines(s, b.e, <<t.hi - 1>>))
    IN  Open(generate_block_lines(s, st.e, <<t.lo + 1>>))

\* Python.get_fence_method: the import expression of a "module:function"
\* reference, "" without one
get_fence_method(t) ==
    LET RECURSIVE Head2(_)
        Head2(m) == IF m = <<>> \/ Head(m) = COLON THEN <<>>
                     ELSE <<Head(m)>> \o Head2(Tail(m))
        Import(module, method) ==
            <<<<"__import__(importlib).import_module", "call">>>>
               \o Tag(module, "call") \o <<<<DOT, "call">>>> \o Tag(method, "call")
        Partition(m) == Import(Head2(m), From(m, Len(Head2(m)) + 1))
        Resolve(m) ==
            IF \E i \in 1..Len(m) : m[i] = COLON THEN Partition(m) ELSE <<>>
        Get(lang) ==
            Resolve(IF lang \in DOMAIN fence_methods THEN fence_methods[lang] ELSE lang)
    IN  Get(get_lang(t.info))

\* Python.fence_noncode; next(rest) without a line left is a StopIteration
\* the generator turns into a RuntimeError
fence_noncode(s, c, st, t) ==
    LET Update(s4, method) ==
            IF method # <<>> THEN [s4 EXCEPT !.e.continued = FALSE] ELSE s4
        Final(s3, method, last) ==
            Update([s3 EXCEPT !.o = @ \o SubSeq(last, 1, Len(last) - 1)
                        \o (IF method = <<>> THEN Tag(<<";">>, "term") ELSE <<>>)
                        \o <<last[Len(last)]>>], method)
        Rest(s3, method, b) ==
            IF t.next_code # None
            THEN Update([s3 EXCEPT !.e = b.e, !.o = @ \o Flatten(b.lines)], method)
            ELSE IF b.lines = <<>> THEN [s3 EXCEPT !.e = b.e, !.x = TRUE]
            ELSE Final([s3 EXCEPT !.e = b.e], method, b.lines[1])
        Quoted(s2, method, b) ==
            Rest([s2 EXCEPT !.e = b.e,
                    !.o = @ \o Tag(QUOTE, "fq")
                       \o Flatten([i \in 1..Len(b.lines) |->
                             escape(generate_dedent_block(b.lines, t.min_indent)[i])])
                       \o Tag(QUOTE, "fq") \o Tag(<<")">>, "fparen")
                       \o (IF method # <<>> THEN Tag(<<")">>, "fparen") ELSE <<>>)
                       \o Tag(<<SP, "#", SP>>, "cmt")],
                 method, generate_block_lines(s, b.e, <<t.hi>>))
        Open(method, b) ==
            Quoted([st EXCEPT !.e = b.e,
                      !.o = @ \o Tag(Spaces(get_indent(st.e)), "ind")
                         \o (IF method # <<>> THEN Tag(<<"(">>, "fparen") \o method
                             ELSE <<>>)
                         \o Tag(<<"(">>, "fparen") \o Tag(<<SP, "#", SP>>, "cmt")
                         \o Flatten(b.lines)],
                   method, generate_block_lines(s, b.e, <<t.hi - 1>>))
    IN  Open(get_fence_method(t), generate_block_lines(s, st.e, <<t.lo + 1>>))

\* fence with the method map consulted before the allow-list
fence_methods_first(s, c, st, t) ==
    IF t.markup = "~" THEN st
    ELSE IF t.is_doctest THEN st
    ELSE IF c.fenced_code_blocks = {} THEN st
    ELSE LET Dispatch(s1) ==
                 IF s1.x THEN s1
                 ELSE IF get_fence_method(t) # <<>> THEN fence_noncode(s, c, s1, t)
                 ELSE IF get_lang(t.info) \in c.fenced_code_blocks
                 THEN fence_code(s, c, s1, t)
                 ELSE fence_noncode(s, c, s1, t)
         IN  Dispatch(noncode_block(s, c, st, t))

\* Python.fence; fence_doctest yields nothing
fence(s, c, st, t) ==
    IF t.markup = "~" THEN st
    ELSE IF t.is_doctest THEN st
    ELSE IF c.fenced_code_blocks = {} THEN st
    ELSE LET Dispatch(s1) ==
                 IF s1.x THEN s1
                 ELSE IF get_lang(t.info) \in c.fenced_code_blocks
                 THEN fence_code(s, c, s1, t)
                 ELSE fence_noncode(s, c, s1, t)
         IN  Dispatch(noncode_block(s, c, st, t))

\* the fields of the Python dataclass of language/python.py and of Tangle
LangConfigs ==
    {[fenced_code_blocks |-> f, noncode_blocks |-> n, doctest_code_blocks |-> d,
      indented_code_blocks |-> TRUE, include_magic |-> TRUE,
      include_quote_parenthesis |-> TRUE] :
        f \in {fenced_code_blocks, {PYTHON, JSON}, {}},
        n \in BOOLEAN, d \in BOOLEAN}

\* documents around a fence: what stands before it, its marker and
\* info-string, its body, and what follows it
FenceDocs ==
    LET Closing(marker) ==
            {<<>>, <<marker \o <<NL>>>>, <<marker \o <<NL>>, Prose>>,
             <<marker \o <<NL>>, FenceOpen, Prose, FenceClose>>}
        Fences(marker) ==
            {pre \o <<marker \o info \o <<NL>>>> \o body \o close :
                pre \in {<<>>, <<Blank>>, <<Prose, Blank>>},
                info \in {PYTHON, JSON, JSON \o <<SP, "a">>, <<"x">>,
                          <<"m", COLON, "f">>, <<>>},
                body \in {<<>>, <<Prose>>, <<<<SP, SP, DQ, "x", BS, NL>>>>,
                          <<FenceMagic>>, <<FenceMagic, Prose>>},
                close \in Closing(marker)}
    IN  Fences(<<TICK, TICK, TICK>>) \cup Fences(<<"~", "~", "~">>)

InitFence ==
    /\ src \in FenceDocs
    /\ cfg \in LangConfigs
    /\ tokens = <<>>
    /\ env = initialize_env(cfg, <<>>)
    /\ idx = 0
    /\ out = <<>>
    /\ runs = <<>>
    /\ ret = None
    /\ pc = "parse"

\* Python.parse and Tangle.render_tokens up to the forward pass
LangParse ==
    /\ pc = "parse"
    /\ \E doctest \in BOOLEAN :
          LET Tokens(toks) ==
                  /\ tokens' = toks
                  /\ env' = initialize_env(cfg, toks)
          IN  Tokens(postlex(cfg, lang_parse(src, doctest)))
    /\ idx' = 1
    /\ pc' = "generate"
    /\ UNCHANGED <<src, cfg, out, runs, ret>>

\* Python.generate_tokens: env["next_code"] = token before a code token
Generate(st) ==
    /\ env' = st.e
    /\ out' = st.o
    /\ idx' = idx + 1
    /\ pc' = IF st.x THEN "raised" ELSE "generate"
    /\ UNCHANGED <<src, cfg, tokens, runs, ret>>

\* a fence token goes to Python.fence
GenerateFence ==
    /\ pc = "generate" /\ idx <= Len(tokens)
    /\ tokens[idx].type = "fence"
    /\ Generate(fence(src, cfg,
                      [e |-> IF lang_is_code_block(cfg, tokens[idx])
                             THEN [env EXCEPT !.next_code = tokens[idx]] ELSE env,
                       o |-> out, x |-> FALSE],
                      tokens[idx]))

\* a token of a type without a handler renders nothing
GenerateOther ==
    /\ pc = "generate" /\ idx <= Len(tokens)
    /\ tokens[idx].type # "fence"
    /\ Generate([e |-> env, o |-> out, x |-> FALSE])

\* Python.generate_tokens: what is still in the buffer is a non-code block
GenerateFlush ==
    /\ pc = "generate" /\ idx > Len(tokens)
    /\ LET Yield(st) == env' = st.e /\ out' = st.o
       IN  Yield(noncode_block(src, cfg, [e |-> env, o |-> out, x |-> FALSE], None))
    /\ pc' = "done"
    /\ UNCHANGED <<src, cfg, tokens, idx, runs, ret>>

NextFence ==
    \/ LangParse
    \/ GenerateFence
    \/ GenerateOther
    \/ GenerateFlush

SpecFence == InitFence /\ [][NextFence]_vars

-----------------------------------------------------------------------------
(* The shebang and front matter rules of lex.py inside the block           *)
(* tokenizer.  env is the StateBlock: its current line, lineMax,           *)
(* parentType and blkIndent; tokens is state.tokens.  A rule returns       *)
(* whether it matched, ok, with the state st and the tokens toks it        *)
(* leaves.                                                                  *)

\* SHEBANG.match: "#!", an interpreter of non-space characters, whitespace
ShebangMatch(text) ==
    /\ Len(text) >= 4
    /\ text[1] = "#" /\ text[2] = "!"
    /\ ~IsSpace(text[3])
    /\ \E i \in 4..Len(text) : IsSpace(text[i])

\* _shebang_lexer without the test of the offset
ShebangLexer_anywhere(s, st, toks, startLine, endLine) ==
    IF ~ShebangMatch(Body(LineAt(s, startLine)))
    THEN [ok |-> FALSE, st |-> st, toks |-> toks]
    ELSE [ok |-> TRUE,
          st |-> [st EXCEPT !.line = startLine + 1],
          toks |-> toks \o <<LexToken("shebang", <<>>, startLine, startLine + 1)>>]

\* _shebang_lexer; start is the offset of the line's text in the source
ShebangLexer(s, st, toks, startLine, endLine) ==
    IF startLine # 0 \/ Indent(LineAt(s, startLine)) # 0
    THEN [ok |-> FALSE, st |-> st, toks |-> toks]
    ELSE IF ~ShebangMatch(Body(LineAt(s, startLine)))
    THEN [ok |-> FALSE, st |-> st, toks |-> toks]
    ELSE [ok |-> TRUE,
          st |-> [st EXCEPT !.line = startLine + 1],
          toks |-> toks \o <<LexToken("shebang", <<>>, startLine, startLine + 1)>>]

\* _front_matter_lexer with delimiters of three or more markers
FrontMatterLexer_more(s, st, toks, startLine, endLine) ==
    LET Push(markup, nextLine) ==
            [ok |-> TRUE,
             st |-> [st EXCEPT !.line = nextLine],
             toks |-> toks \o <<LexToken("front_matter", markup, startLine, nextLine)>>]
        Run(t, markup) == Len(t) >= 3 /\ \A i \in 1..Len(t) : t[i] = markup
        RECURSIVE Search(_, _)
        Search(markup, nextLine) ==
            IF nextLine >= endLine THEN [ok |-> FALSE, st |-> st, toks |-> toks]
            ELSE IF ~isEmpty(s, nextLine) /\ sCount(s, nextLine) < st.blkIndent
            THEN Push(markup, nextLine)
            ELSE IF Lead(s, nextLine, 1) # <<markup>>
            THEN Search(markup, nextLine + 1)
            ELSE IF sCount(s, nextLine) - st.blkIndent >= 4
            THEN Search(markup, nextLine + 1)
            ELSE IF Run(Text(s, nextLine), markup)
            THEN Push(markup, nextLine + 1)
            ELSE Search(markup, nextLine + 1)
        Open(t) ==
            IF sCount(s, startLine) # 0 THEN FALSE
            ELSE IF toks # <<>> /\ Len(toks) > 1 THEN FALSE
            ELSE IF toks # <<>> /\ toks[Len(toks)].type # "shebang" THEN FALSE
            ELSE Run(t, "-") \/ Run(t, "+")
    IN  IF Open(Text(s, startLine))
        THEN Search(Text(s, startLine)[1], startLine + 1)
        ELSE [ok |-> FALSE, st |-> st, toks |-> toks]

\* _front_matter_lexer with a delimiter the end of the document closes
FrontMatterLexer_autoclose(s, st, toks, startLine, endLine) ==
    LET Push(markup, nextLine) ==
            [ok |-> TRUE,
             st |-> [st EXCEPT !.line = nextLine],
             toks |-> toks \o <<LexToken("front_matter", markup, startLine, nextLine)>>]
        RECURSIVE Search(_, _)
        Search(markup, nextLine) ==
            IF nextLine >= endLine THEN Push(markup, endLine)
            ELSE IF ~isEmpty(s, nextLine) /\ sCount(s, nextLine) < st.blkIndent
            THEN Push(markup, nextLine)
            ELSE IF Lead(s, nextLine, 1) # <<markup>>
            THEN Search(markup, nextLine + 1)
            ELSE IF sCount(s, nextLine) - st.blkIndent >= 4
            THEN Search(markup, nextLine + 1)
            ELSE IF Text(s, nextLine) = <<markup, markup, markup>>
            THEN Push(markup, nextLine + 1)
            ELSE Search(markup, nextLine + 1)
        Open(t) ==
            IF sCount(s, startLine) # 0 THEN FALSE
            ELSE IF toks # <<>> /\ Len(toks) > 1 THEN FALSE
            ELSE IF toks # <<>> /\ toks[Len(toks)].type # "shebang" THEN FALSE
            ELSE t \in {<<"-", "-", "-">>, <<"+", "+", "+">>}
    IN  IF Open(Text(s, startLine))
        THEN Search(Text(s, startLine)[1], startLine + 1)
        ELSE [ok |-> FALSE, st |-> st, toks |-> toks]

\* _front_matter_lexer: every return False comes before the first write to
\* the state; parentType and lineMax are restored after the push
FrontMatterLexer(s, st, toks, startLine, endLine) ==
    LET Push(markup, nextLine) ==
            [ok |-> TRUE,
             st |-> [st EXCEPT !.line = nextLine],
             toks |-> toks \o <<LexToken("front_matter", markup, startLine, nextLine)>>]
        RECURSIVE Search(_, _)
        Search(markup, nextLine) ==
            IF nextLine >= endLine THEN [ok |-> FALSE, st |-> st, toks |-> toks]
            ELSE IF ~isEmpty(s, nextLine) /\ sCount(s, nextLine) < st.blkIndent
            THEN Push(markup, nextLine)
            ELSE IF Lead(s, nextLine, 1) # <<markup>>
            THEN Search(markup, nextLine + 1)
            ELSE IF sCount(s, nextLine) - st.blkIndent >= 4
            THEN Search(markup, nextLine + 1)
            ELSE IF Text(s, nextLine) = <<markup, markup, markup>>
            THEN Push(markup, nextLine + 1)
            ELSE Search(markup, nextLine + 1)
        Open(t) ==
            IF sCount(s, startLine) # 0 THEN FALSE
            ELSE IF toks # <<>> /\ Len(toks) > 1 THEN FALSE
            ELSE IF toks # <<>> /\ toks[Len(toks)].type # "shebang" THEN FALSE
            ELSE t \in {<<"-", "-", "-">>, <<"+", "+", "+">>}
    IN  IF Open(Text(s, startLine))
        THEN Search(Text(s, startLine)[1], startLine + 1)
        ELSE [ok |-> FALSE, st |-> st, toks |-> toks]

\* the longest document of the lexer, in lines
MaxLexLines == 3

\* the lines of the lexer's documents: delimiters of both markers, a run of
\* four markers, an indented delimiter, text, an empty line, and "#!" lines
\* with and without a command and behind a space
LexCatalog ==
    {<<"-", "-", "-", NL>>, <<"+", "+", "+", NL>>, <<"-", "-", "-", "-", NL>>,
     <<SP, "-", "-", "-", NL>>, Prose, Blank,
     <<"#", "!", "a", SP, "b", NL>>, <<"#", "!", "a", NL>>,
     <<SP, "#", "!", "a", SP, "b", NL>>}

LexDocs == UNION {[1..n -> LexCatalog] : n \in 0..MaxLexLines}

InitLex ==
    /\ src \in LexDocs
    /\ cfg = Config(TRUE, FALSE, TRUE)
    /\ tokens = <<>>
    /\ env = [line |-> 0, lineMax |-> LineMax(src), parentType |-> "root",
              blkIndent |-> 0]
    /\ idx = 0
    /\ out = <<>>
    /\ runs = <<>>
    /\ ret = None
    /\ pc = "line"

\* ParserBlock.tokenize: the head of the loop over the lines
TokenizeLine ==
    /\ pc = "line"
    /\ LET Skip(line) ==
               /\ env' = [env EXCEPT !.line = line]
               /\ pc' = IF line >= env.lineMax THEN "done" ELSE "shebang"
       IN  Skip(skipEmptyLines(src, env.line))
    /\ UNCHANGED <<src, cfg, tokens, idx, out, runs, ret>>

\* a rule of the chain: a match goes back to the loop, a no-match to the
\* rule behind it
Apply(r, behind) ==
    /\ env' = r.st
    /\ tokens' = r.toks
    /\ pc' = IF r.ok THEN "line" ELSE behind
    /\ UNCHANGED <<src, cfg, idx, out, runs, ret>>

ShebangRule ==
    /\ pc = "shebang"
    /\ Apply(ShebangLexer(src, env, tokens, env.line, env.lineMax), "front_matter")

FrontMatterRule ==
    /\ pc = "front_matter"
    /\ Apply(FrontMatterLexer(src, env, tokens, env.line, env.lineMax), "ordinary")

OrdinaryRule ==
    /\ pc = "ordinary"
    /\ LET Push(t) == Apply([ok |-> TRUE, st |-> [env EXCEPT !.line = t.hi],
                            toks |-> tokens \o <<t>>], "line")
       IN  Push(BlockRule(src, env.line, env.lineMax))

NextLex ==
    \/ TokenizeLine
    \/ ShebangRule
    \/ FrontMatterRule
    \/ OrdinaryRule

SpecLex == InitLex /\ [][NextLex]_vars

-----------------------------------------------------------------------------
(* Renderer.render_cells, render.py: the forward pass of render_tokens     *)
(* over one cell at a time.  ret holds the call: include_hr, the parsed    *)
(* tokens all, the cells walk_cells yields, the number k of cells begun,   *)
(* the outputs outs, and prior and prior_token of the loop; base tells a   *)
(* call on the base Renderer, whose forward pass runs at pc "base", from   *)
(* one on Python.                                                          *)

\* Renderer.cell_hr_length
cell_hr_length == 9

\* walk_cells with the comparison slipped to >=
walk_cells_ge(toks, include_hr) ==
    LET Marks(markup) == Len(SelectSeq(markup, LAMBDA x : x # SP))
        RECURSIVE Walk(_, _)
        Walk(rest, block) ==
            IF rest = <<>>
            THEN (IF block # <<>> THEN <<[block |-> block, next |-> None]>> ELSE <<>>)
            ELSE IF Head(rest).type # "hr" THEN Walk(Tail(rest), Append(block, Head(rest)))
            ELSE IF Marks(Head(rest).markup) >= cell_hr_length
            THEN <<[block |-> block, next |-> Head(rest)]>>
                    \o Walk(Tail(rest), IF include_hr THEN <<Head(rest)>> ELSE <<>>)
            ELSE Walk(Tail(rest), block)
    IN  Walk(toks, <<>>)

\* Renderer.walk_cells: the cells in the order they are yielded, each with
\* the hr token that ends it or None
walk_cells(toks, include_hr) ==
    LET Marks(markup) == Len(SelectSeq(markup, LAMBDA x : x # SP))
        RECURSIVE Walk(_, _)
        Walk(rest, block) ==
            IF rest = <<>>
            THEN (IF block # <<>> THEN <<[block |-> block, next |-> None]>> ELSE <<>>)
            ELSE IF Head(rest).type # "hr" THEN Walk(Tail(rest), Append(block, Head(rest)))
            ELSE IF Marks(Head(rest).markup) > cell_hr_length
            THEN <<[block |-> block, next |-> Head(rest)]>>
                    \o Walk(Tail(rest), IF include_hr THEN <<Head(rest)>> ELSE <<>>)
            ELSE Walk(Tail(rest), block)
    IN  Walk(toks, <<>>)

\* the most thematic breaks in a document
MaxBreaks == 1

\* what stands between the breaks of a document
Segments ==
    {<<>>, <<Blank>>, <<Prose>>, <<Prose, Blank>>, <<CodeColon, Blank>>, <<Prompt>>,
     <<FenceOpen, Code, FenceClose>>}

\* thematic breaks of cell_hr_length markers, of one more, and of
\* cell_hr_length markers around a space
Breaks ==
    {[i \in 1..(n + 1) |-> IF i = n + 1 THEN NL ELSE "-"] :
        n \in {cell_hr_length, cell_hr_length + 1}}
      \cup {<<"-", SP>> \o [i \in 1..cell_hr_length |->
                              IF i = cell_hr_length THEN NL ELSE "-"]}

RECURSIVE CellDocsOf(_)
CellDocsOf(n) ==
    IF n = 0 THEN Segments
    ELSE {d \o <<h>> \o g : d \in CellDocsOf(n - 1), h \in Breaks, g \in Segments}

CellDocs == UNION {CellDocsOf(n) : n \in 0..MaxBreaks}

InitCells ==
    /\ src \in CellDocs
    /\ cfg \in {Config(TRUE, FALSE, TRUE), Config(TRUE, TRUE, TRUE)}
    /\ tokens = <<>>
    /\ env = EmptyEnv
    /\ idx = 0
    /\ out = <<>>
    /\ runs = <<>>
    /\ \E include_hr \in BOOLEAN, base \in BOOLEAN :
           /\ ret = [include_hr |-> include_hr, base |-> base]
           /\ base => cfg = Config(TRUE, FALSE, TRUE)
    /\ pc = "start"

\* render_cells up to its loop: parse, the first prior and the cells
CellsParse ==
    /\ pc = "start"
    /\ LET Cells(toks) ==
               ret' = [include_hr |-> ret.include_hr, base |-> ret.base, all |-> toks,
                       cells |-> walk_cells(toks, ret.include_hr), k |-> 0,
                       outs |-> <<>>, prior |-> get_initial_env(cfg, toks),
                       prior_token |-> None]
       IN  Cells(Parse(src))
    /\ pc' = "cell"
    /\ UNCHANGED <<src, cfg, tokens, env, idx, out, runs>>

\* the head of the loop of render_cells: the next cell of walk_cells and
\* its env.  Without include_hr walk_cells resumes behind an hr with
\* get_block(env, token), which compares last_line with a token: TypeError
CellBegin ==
    /\ pc = "cell" /\ ret.k < Len(ret.cells)
    /\ IF ret.k > 0 /\ ~ret.include_hr
       THEN /\ pc' = "raised"
            /\ UNCHANGED <<tokens, env, idx, out, runs, ret>>
       ELSE /\ LET Cell(block) ==
                       /\ env' = [get_initial_env(cfg, block) EXCEPT
                                     !.pos = ret.prior.pos,
                                     !.last_line = ret.prior.last_line]
                       /\ tokens' = (IF ret.prior_token # None
                                     THEN <<ret.prior_token>> ELSE <<>>) \o block
               IN  Cell(ret.cells[ret.k + 1].block)
            /\ idx' = 1
            /\ out' = <<>>
            /\ runs' = <<>>
            /\ ret' = [ret EXCEPT !.k = @ + 1]
            /\ pc' = IF ret.base THEN "base" ELSE "tokens"
    /\ UNCHANGED <<src, cfg>>

\* the end of render_tokens(block, env=env, stop=next_token) and of the
\* body of the loop of render_cells
CellFlush ==
    /\ pc = "tokens" /\ idx > Len(tokens)
    /\ LET Yield(st, stop) ==
               /\ env' = st.e
               /\ out' = st.o
               /\ runs' = st.r
               /\ ret' = [ret EXCEPT !.outs = Append(@, st.o), !.prior = st.e,
                                     !.prior_token = stop]
           Stop(stop) ==
               Yield(non_code(src, cfg,
                              [e |-> [env EXCEPT !.next_code = None], o |-> out,
                               r |-> runs, x |-> FALSE], stop), stop)
       IN  Stop(ret.cells[ret.k].next)
    /\ pc' = "cell"
    /\ UNCHANGED <<src, cfg, tokens, idx>>

\* one pass of the inner loop of render_tokens on the base Renderer:
\* Renderer.code_block reads through the end of its token, no other token
\* type has a method
BaseToken ==
    /\ pc = "base" /\ idx <= Len(tokens)
    /\ LET Yield(b) ==
               /\ env' = b.e
               /\ out' = out \o Flatten(b.lines)
           Method(t, e) ==
               Yield(IF t.type = "code_block" THEN get_block(src, e, t.hi)
                     ELSE [lines |-> <<>>, e |-> e])
       IN  Method(tokens[idx], [env EXCEPT !.next_code = next_code_of(cfg, tokens, idx)])
    /\ idx' = idx + 1
    /\ pc' = "base"
    /\ UNCHANGED <<src, cfg, tokens, runs, ret>>

\* the end of render_tokens(block, env=env, stop=next_token) on the base
\* Renderer, Renderer.non_code, and of the body of the loop of render_cells
BaseFlush ==
    /\ pc = "base" /\ idx > Len(tokens)
    /\ LET Yield(b, e, stop) ==
               /\ env' = e
               /\ out' = out \o Flatten(b.lines)
               /\ ret' = [ret EXCEPT !.outs = Append(@, out'), !.prior = e,
                                     !.prior_token = stop]
           Rest(b, stop) ==
               Yield(b, IF stop = None THEN b.e
                        ELSE [b.e EXCEPT !.last_indent = stop.last_indent], stop)
           Stop(e, stop) ==
               Rest(IF stop = None THEN get_rest(src, e) ELSE get_block(src, e, stop.lo),
                    stop)
       IN  Stop([env EXCEPT !.next_code = None], ret.cells[ret.k].next)
    /\ pc' = "cell"
    /\ UNCHANGED <<src, cfg, tokens, idx, runs>>

\* walk_cells is exhausted
CellsEnd ==
    /\ pc = "cell" /\ ret.k = Len(ret.cells)
    /\ pc' = "done"
    /\ UNCHANGED <<src, cfg, tokens, env, idx, out, runs, ret>>

NextCells ==
    \/ CellsParse
    \/ CellBegin
    \/ RenderCodeBlock
    \/ RenderFencePycon
    \/ RenderFencePython
    \/ RenderOther
    \/ CellFlush
    \/ BaseToken
    \/ BaseFlush
    \/ CellsEnd

SpecCells == InitCells /\ [][NextCells]_vars

-----------------------------------------------------------------------------
(* The parser cache of tangle.py.  env is the dictionary cached of         *)
(* get_markdown_it, idx the number of Tangle instances constructed so far, *)
(* each of which holds the cached parser; a parser is the rule chain of    *)
(* its block ruler and the owner of options["highlight"]; src, tokens and  *)
(* runs are the document, the tokens and the instance of the last parse.   *)

\* get_markdown_it(): the cached parser, constructed on the first call with
\* the block rules of markdown-it's preset in their order
get_markdown_it(cached) ==
    LET Rule(name) == [name |-> name, fn |-> name, enabled |-> TRUE]
    IN  IF cached.cache # None THEN cached
        ELSE [cache |->
                [block |-> <<Rule("table"), Rule("code"), Rule("fence"),
                             Rule("blockquote"), Rule("hr"), Rule("list"),
                             Rule("reference"), Rule("html_block"),
                             Rule("heading"), Rule("lheading"), Rule("paragraph")>>,
                 highlight |-> 0]]

\* Tangle.initalize_parser_defaults(parser) of the instance self.  Ruler's
\* before and after insert a new rule at the first rule of the given name
\* and disable switches the first rule of the name off; the plugins add
\* footnote_def before reference and deflist before paragraph.
initalize_parser_defaults(parser, self) ==
    LET Rule(name, fn) == [name |-> name, fn |-> fn, enabled |-> TRUE]
        find(chain, name) == MinOf({i \in 1..Len(chain) : chain[i].name = name}, 0)
        insert(chain, k, r) ==
            SubSeq(chain, 1, k - 1) \o <<r>> \o SubSeq(chain, k, Len(chain))
        before(chain, name, new, fn) == insert(chain, find(chain, name), Rule(new, fn))
        after(chain, name, new, fn) == insert(chain, find(chain, name) + 1, Rule(new, fn))
        disable(chain, name) == [chain EXCEPT ![find(chain, name)].enabled = FALSE]
        use(chain) ==
            before(before(chain, "reference", "footnote_def", "footnote_def"),
                   "paragraph", "deflist", "deflist")
        midgy(chain) ==
            before(before(after(disable(after(disable(before(chain,
                "code", "doctest", "doctest_lexer"),
                "code"),
                "doctest", "code", "code_lexer"),
                "fence"),
                "code", "fence", "code_fence_lexer"),
                "table", "shebang", "_shebang_lexer"),
                "table", "front_matter", "_front_matter_lexer")
    IN  [block |-> use(midgy(parser.block)), highlight |-> self]

\* parser.parse(src): ParserBlock.tokenize running the enabled rules of the
\* chain in their order on every line that starts a block
ChainParse(chain, s) ==
    LET State(line) == [line |-> line, lineMax |-> LineMax(s),
                        parentType |-> "root", blkIndent |-> 0]
        Block(t, line, toks) ==
            IF t = NoMatch THEN [ok |-> FALSE, st |-> State(line), toks |-> toks]
            ELSE [ok |-> TRUE, st |-> State(t.hi), toks |-> toks \o <<t>>]
        Run(fn, line, toks) ==
            CASE fn = "_shebang_lexer" ->
                    ShebangLexer(s, State(line), toks, line, LineMax(s))
              [] fn = "_front_matter_lexer" ->
                    FrontMatterLexer(s, State(line), toks, line, LineMax(s))
              [] fn = "doctest_lexer" -> Block(DoctestLexer(s, line, LineMax(s)), line, toks)
              [] fn = "code_lexer" -> Block(CodeLexer(s, line, LineMax(s)), line, toks)
              [] fn = "code_fence_lexer" -> Block(CodeFence(s, line, LineMax(s)), line, toks)
              [] fn = "hr" -> Block(OrdinaryRules(s, line, LineMax(s)), line, toks)
              [] OTHER -> Block(NoMatch, line, toks)
        RECURSIVE Try(_, _, _)
        Try(i, line, toks) ==
            LET Or(r) == IF r.ok THEN r ELSE Try(i + 1, line, toks)
            IN  IF i > Len(chain) THEN Block(NoMatch, line + 1, toks)
                ELSE IF ~chain[i].enabled THEN Try(i + 1, line, toks)
                ELSE Or(Run(chain[i].fn, line, toks))
        RECURSIVE Loop(_, _)
        Loop(line, toks) ==
            LET Step(r) == Loop(skipEmptyLines(s, r.st.line), r.toks)
            IN  IF line >= LineMax(s) THEN toks ELSE Step(Try(1, line, toks))
    IN  Loop(skipEmptyLines(s, 0), <<>>)

\* the most Tangle instances of a process
MaxInstances == 3

InitCache ==
    /\ src = <<>>
    /\ cfg = Config(TRUE, FALSE, TRUE)
    /\ tokens = <<>>
    /\ env = [cache |-> None]
    /\ idx = 0
    /\ out = <<>>
    /\ runs = <<>>
    /\ ret = None
    /\ pc = "cache"

\* Tangle.__post_init__ of a new instance with parser = None
Construct ==
    /\ idx < MaxInstances
    /\ idx' = idx + 1
    /\ env' = [cache |-> initalize_parser_defaults(get_markdown_it(env).cache, idx + 1)]
    /\ UNCHANGED <<src, cfg, tokens, out, runs, ret, pc>>

\* Tangle.parse of one of the instances, self.parser.parse(src, env), on a
\* document of one or two lines
ParseShared ==
    /\ LET lines == {Prose, Blank, Code, Prompt, FenceOpen, FenceClose,
                     <<"-", "-", "-", NL>>, <<"#", "!", "a", SP, "b", NL>>}
       IN  \E self \in 1..idx, d \in UNION {[1..n -> lines] : n \in 1..2} :
              /\ src' = d
              /\ runs' = <<self>>
              /\ tokens' = ChainParse(env.cache.block, d)
    /\ UNCHANGED <<cfg, env, idx, out, ret, pc>>

NextCache ==
    \/ Construct
    \/ ParseShared

SpecCache == InitCache /\ [][NextCache]_vars

-----------------------------------------------------------------------------
(* Renderer.get_block on its own: the calls get_block(env, stop) and        *)
(* get_block(env) on one Environment in any order.  idx counts the calls    *)
(* of readline, out holds the lines yielded and ret the last call.          *)

\* the largest stop of a call
MaxStop == 5

InitBlock ==
    /\ src \in UNION {[1..n -> {Prose, Code}] : n \in 0..MaxLines}
    /\ cfg = Config(TRUE, FALSE, TRUE)
    /\ tokens = <<>>
    /\ env = EmptyEnv
    /\ idx = 0
    /\ out = <<>>
    /\ runs = <<>>
    /\ ret = None
    /\ pc = "block"

\* list(get_block(env, stop)): every line it yields is one readline
GetBlock ==
    /\ \E stop \in 0..MaxStop :
          LET Yield(r) ==
                  /\ env' = r.e
                  /\ out' = out \o r.lines
                  /\ idx' = idx + Len(r.lines)
                  /\ ret' = [op |-> "get_block", stop |-> stop]
          IN  Yield(get_block(src, env, stop))
    /\ UNCHANGED <<src, cfg, tokens, runs, pc>>

\* list(get_block(env)): the source iterated without readline
GetRest ==
    /\ LET Yield(r) ==
               /\ env' = r.e
               /\ out' = out \o r.lines
               /\ ret' = [op |-> "get_rest"]
       IN  Yield(get_rest(src, env))
    /\ UNCHANGED <<src, cfg, tokens, idx, runs, pc>>

NextBlock ==
    \/ GetBlock
    \/ GetRest

SpecBlock == InitBlock /\ [][NextBlock]_vars

-----------------------------------------------------------------------------
(* Properties of the render call *)

\* count_lines: the lines of a text, a last line without newline included
CountLines(chars) == Len(SplitLines(chars, <<>>))

IsSource(x) == x[2] = "s"

\* the characters of a fragment that were copied from the source
SourceOf(f) == Chars(SelectSeq(f, IsSource))

\* the token of the parse that holds line k (0-based), None for a prose line
TokenAt(k) ==
    LET at == {i \in 1..Len(tokens) :
                  /\ tokens[i].lo <= k /\ k < tokens[i].hi
                  /\ is_code_block(cfg, tokens[i])}
    IN  IF at = {} THEN None ELSE tokens[CHOOSE i \in at : TRUE]

\* a line without up to n columns of its indentation
Dedented(l, n) == From(l, Min(n, Indent(l)))

\* what the two strips leave of line k: the content lines of a code token
\* lose min_indent columns of indentation, the input lines of a promoted
\* doctest lose the prompt as well, every other line is whole
Stripped(k) ==
    LET l == src[k + 1]
        t == TokenAt(k)
    IN  IF t = None THEN l
        ELSE IF t.type = "code_block" THEN Dedented(l, env.min_indent)
        ELSE IF t.info = PYCON
        THEN IF t.input # <<>> /\ k < t.input[2]
             THEN Slice(l, env.min_indent, Indent(l)) \o From(l, Indent(l) + 4)
             ELSE Dedented(l, env.min_indent)
        ELSE IF k = t.lo \/ k = t.hi - 1 THEN l
        ELSE Dedented(l, env.min_indent)

\* C1: the output of render(D) has exactly as many lines as D
C1_LineCount ==
    pc = "done" => CountLines(Chars(out)) = CountLines(Flatten(src))

\* C2: the characters of D appear in render(D) in their order, and taking
\* the inserted characters out of render(D) gives back D without the
\* dedent of its code lines and the prompts of its promoted doctest lines
C2_CharacterSuperset ==
    pc = "done" =>
        SourceOf(out) = Flatten([k \in 1..Len(src) |-> Stripped(k - 1)])

\* C5: render returns an output for every document, it never raises
C5_NeverRaises == pc # "raised"

\* the source lines of a prose run and the fragment it emitted
RunLines(r) == SubSeq(src, r.lo + 1, r.hi)
RunOut(r) == SubSeq(out, r.a, r.b)

\* a line with a character that is not whitespace
HasText(l) == \E i \in 1..Len(l) : ~IsSpace(l[i])

\* the characters of a fragment that carry the tag g
Tagged(f, g) == Chars(SelectSeq(f, LAMBDA x : x[2] = g))

\* C6: in string mode the closing quote of a prose run is followed by ";"
\* exactly when the run is the last construct of the document; a run of
\* blank lines has neither quotes nor terminator, and a document that is
\* only prose is one quoted literal that ends in ";"
C6_Terminator ==
    /\ \A k \in 1..Len(runs) :
          runs[k].mode = "string" =>
              IF \E j \in 1..Len(RunLines(runs[k])) : HasText(RunLines(runs[k])[j])
              THEN /\ Tagged(RunOut(runs[k]), "lead")
                         = Spaces(runs[k].indent) \o QUOTE
                   /\ Tagged(RunOut(runs[k]), "trail")
                         = QUOTE \o (IF runs[k].final THEN <<";">> ELSE <<>>)
              ELSE /\ Tagged(RunOut(runs[k]), "lead") = <<>>
                   /\ Tagged(RunOut(runs[k]), "trail") = <<>>
    /\ (/\ pc = "done" /\ tokens # <<>> /\ cfg.include_markdown
        /\ \A i \in 1..Len(tokens) : tokens[i].type = "paragraph")
          => /\ Tagged(out, "lead") = QUOTE
             /\ Tagged(out, "trail") = QUOTE \o <<";">>
             /\ SourceOf(out) = Flatten(src)

\* a document ends with a prose run that is quoted and terminated, after a
\* run before a code block that is quoted without a terminator
C6_Witness ==
    /\ pc = "done"
    /\ \E j, k \in 1..Len(runs) :
          /\ runs[j].mode = "string" /\ ~runs[j].final
          /\ Tagged(RunOut(runs[j]), "trail") = QUOTE
          /\ runs[k].mode = "string" /\ runs[k].final
          /\ Tagged(RunOut(runs[k]), "trail") = QUOTE \o <<";">>

\* C7: while env.quoted_block is set, non_code emits the prose run as it is
\* in the source, character for character, with nothing added
C7_QuotedVerbatim ==
    \A k \in 1..Len(runs) :
        runs[k].mode = "quoted" =>
            RunOut(runs[k]) = Tag(Flatten(RunLines(runs[k])), "s")

\* C8: in comment mode every line with text of a prose run is emitted
\* behind the computed indent and "# ", and every blank line of the run
\* as whitespace only
C8_CommentMode ==
    \A k \in 1..Len(runs) :
        runs[k].mode = "comment" =>
            LET ls == RunLines(runs[k])
                es == SplitT(RunOut(runs[k]), <<>>)
            IN  /\ Len(es) = Len(ls)
                /\ \A j \in 1..Len(ls) :
                      IF HasText(ls[j])
                      THEN Chars(es[j])
                              = Spaces(runs[k].indent) \o <<"#", SP>> \o ls[j]
                      ELSE \A i \in 1..Len(es[j]) : IsSpace(es[j][i][1])

\* min over the code-classified tokens of the parse of meta.min_indent
DocMinIndent ==
    MinOf({tokens[i].min_indent :
              i \in {j \in 1..Len(tokens) : is_code_block(cfg, tokens[j])}}, 0)

\* a step of render_tokens that hands a code-classified token to its handler
CodeStep ==
    /\ pc = "tokens" /\ idx <= Len(tokens) /\ idx' = idx + 1
    /\ is_code_block(cfg, tokens[idx])
    /\ pc' = "tokens"

\* the lines the handler of the step emitted after the prose before the token
Emitted == SplitT(SubSeq(out', runs'[Len(runs')].b + 1, Len(out')), <<>>)

\* C4: env.min_indent is the minimum of meta.min_indent over the code tokens
\* before anything is emitted, no handler changes it, and every content line
\* of a code token is emitted without exactly env.min_indent leading columns
C4_MinIndent ==
    /\ [](pc \in {"tokens", "done", "raised"} => env.min_indent = DocMinIndent)
    /\ [][CodeStep =>
            /\ env'.min_indent = env.min_indent
            /\ Len(Emitted) = tokens[idx].hi - tokens[idx].lo
            /\ \A j \in 1..Len(Emitted) :
                  j <= tokens[idx].hi - tokens[idx].lo =>
                      SourceOf(Emitted[j]) = Stripped(tokens[idx].lo + j - 1)]_vars

\* a step that hands a Doctest token to fence_pycon with include_doctest set
DoctestStep ==
    /\ pc = "tokens" /\ idx <= Len(tokens) /\ idx' = idx + 1
    /\ tokens[idx].type = "fence" /\ tokens[idx].info = PYCON
    /\ tokens[idx].input # <<>>
    /\ cfg.include_doctest

\* the lines of the token of the step: the input span comes out as code
\* without min_indent columns and the prompt, the output span as comment
\* lines, one output line per line of the token
DoctestLines ==
    LET t == tokens[idx]
    IN  /\ Len(Emitted) = t.hi - t.lo
        /\ \A j \in 1..Len(Emitted) :
              j <= t.hi - t.lo =>
                  LET k == t.lo + j - 1
                      l == src[k + 1]
                  IN  IF k < t.input[2]
                      THEN Emitted[j]
                              = Tag(Slice(l, env.min_indent, Indent(l))
                                       \o From(l, Indent(l) + 4), "s")
                      ELSE /\ Tagged(Emitted[j], "pre")
                                 = Spaces(Len(Tagged(Emitted[j], "pre")) - 2)
                                      \o <<"#", SP>>
                           /\ Emitted[j][1][2] = "pre"
                           /\ \E n \in 0..Indent(l) :
                                 SourceOf(Emitted[j]) = From(l, n)

\* C9 as stated: with include_doctest every Doctest token has each input
\* line emitted as code without min_indent columns and the prompt, and each
\* output line emitted as a comment; no line is dropped or emitted twice
C9_DoctestAll == [][DoctestStep => DoctestLines]_vars

\* C9, amended: the same for every Doctest token that is not a cell magic
C9_Doctest == [][DoctestStep /\ ~tokens[idx].magic => DoctestLines]_vars

\* a Doctest token with a continuation line and an output line was rendered
C9_Witness ==
    /\ pc = "tokens" /\ idx > 1 /\ cfg.include_doctest
    /\ tokens[idx - 1].type = "fence" /\ tokens[idx - 1].info = PYCON
    /\ ~tokens[idx - 1].magic
    /\ tokens[idx - 1].input # <<>> /\ tokens[idx - 1].output # <<>>
    /\ tokens[idx - 1].input[2] - tokens[idx - 1].input[1] = 2
    /\ \E i \in 1..Len(out) : out[i] = <<"#", "pre">>

\* C3: get_computed_indent(env) is max(r, min_indent) - min_indent, with r
\* the first_indent of the next code token when colon_block is set and that
\* indent is greater than last_indent, last_indent + 4 when colon_block is
\* set otherwise, and last_indent without colon_block; never negative
C3_ComputedIndent ==
    pc = "returned" =>
        LET n == IF env.next_code = None THEN 0 ELSE env.next_code.first_indent
            r == IF env.colon_block /\ n > env.last_indent THEN n
                 ELSE IF env.colon_block THEN env.last_indent + 4
                 ELSE env.last_indent
        IN  /\ ret = (IF r > env.min_indent THEN r ELSE env.min_indent)
                        - env.min_indent
            /\ ret >= 0

\* after a colon the deeper indent of the next code block was preferred
C3_Witness ==
    /\ pc = "returned"
    /\ env.colon_block /\ env.next_code # None
    /\ env.next_code.first_indent > env.last_indent + 4
    /\ env.min_indent > 0
    /\ ret = env.next_code.first_indent - env.min_indent

\* C29: get_indent of language/python.py returns what get_computed_indent
\* of python.py returns on the same Environment
C29_SameIndent ==
    pc = "indent" => ret = get_computed_indent(env)

\* a step of the forward pass that handles the token at idx
TokenStep == pc = "tokens" /\ idx <= Len(tokens) /\ pc' = "tokens"

\* the flags of an Environment
Flags(e) == <<e.colon_block, e.quoted_block, e.continued>>

\* the classification of the last line with text of a token's content
Trailing(t) ==
    LET Class(left) ==
            <<EndsWith(left, <<COLON>>),
              EndsWith(left, QUOTE) \/ EndsWith(left, <<"'", "'", "'">>),
              EndsWith(left, <<BS>>)>>
    IN  Class(RStrip(Content(src, t)))

\* C15 as stated: a code token leaves the three flags at the classification
\* of its own last line, whatever they were, and no other step of the
\* forward pass changes them
C15_FlagsAll ==
    [][/\ TokenStep =>
             Flags(env') = IF is_code_block(cfg, tokens[idx])
                           THEN Trailing(tokens[idx]) ELSE Flags(env)
       /\ pc = "tokens" /\ idx > Len(tokens) => Flags(env') = Flags(env)]_vars

\* a code token the forward pass has a handler for: an indented code
\* block, a doctest, a fence with a fence_<info> method
Handled(t) ==
    is_code_block(cfg, t) /\ (t.type = "fence" => t.info \in {PYCON, PYTHON})

\* C15, amended: a code token with a handler leaves the three flags at a
\* value that is its own alone: the classification of its last line for an
\* indented code block and a python fence, all three cleared for a doctest;
\* no other step of the forward pass changes them
C15_Flags ==
    [][/\ TokenStep =>
             Flags(env') = IF ~Handled(tokens[idx]) THEN Flags(env)
                           ELSE IF tokens[idx].info = PYCON
                           THEN <<FALSE, FALSE, FALSE>>
                           ELSE Trailing(tokens[idx])
       /\ pc = "tokens" /\ idx > Len(tokens) => Flags(env') = Flags(env)]_vars

\* an indented code block that ends in a colon, a doctest that ends in a
\* colon and prose have been handled, and the flags are those the doctest
\* left
C15_Witness ==
    /\ pc = "done" /\ Len(tokens) = 3
    /\ tokens[1].type = "code_block" /\ Trailing(tokens[1])[1]
    /\ is_code_block(cfg, tokens[2]) /\ tokens[2].info = PYCON
    /\ Trailing(tokens[2])[1]
    /\ ~is_code_block(cfg, tokens[3])
    /\ Flags(env) = <<FALSE, FALSE, FALSE>>

\* the last_indent of the last code token among the first n, 0 without one
LastCodeIndent(n) ==
    LET code == {j \in 1..Min(n, Len(tokens)) : is_code_block(cfg, tokens[j])}
    IN  IF code = {} THEN 0
        ELSE tokens[CHOOSE j \in code : \A k \in code : k <= j].last_indent

\* C16: at every point of the forward pass env.last_indent is the
\* last_indent of the code token handled last, 0 before the first, so a
\* token that is not code never changes it
C16_LastIndent ==
    pc \in {"tokens", "done"} => env.last_indent = LastCodeIndent(idx - 1)

\* render_tokens has returned
Returned == pc = "done" /\ idx > 0

\* the last prose run took the lines from line lo to the end of the source
\* and its output holds their characters
FinalRun(r) ==
    /\ r.final /\ r.hi = Len(src)
    /\ SourceOf(RunOut(r)) = Flatten(RunLines(r))

\* C18: the read cursor never moves back and never passes the end of the
\* source, so every line is read once and in order; when render_tokens
\* returns it is at the end of the source, and the lines the last handler
\* left unread have been emitted as the final prose run
C18_ReadAll ==
    /\ [][pc = "tokens" /\ pc' \in {"tokens", "done"} =>
             env.pos <= env'.pos /\ env'.pos <= Len(src)]_vars
    /\ [](Returned =>
             /\ env.pos = Len(src)
             /\ runs # <<>>
             /\ FinalRun(runs[Len(runs)])
             /\ \A i \in 1..(Len(runs) - 1) : ~runs[i].final)

\* render_tokens has returned from a document with prose before a code
\* token and lines behind it, which the final run took
C18_Witness ==
    /\ Returned /\ Len(runs) = 2
    /\ runs[1].lo < runs[1].hi
    /\ runs[2].lo < runs[2].hi
    /\ \E i \in 1..Len(tokens) :
          is_code_block(cfg, tokens[i]) /\ tokens[i].hi <= runs[2].lo

\* line k starts, behind 4 or more columns, with the doctest prompt
Prompts(k) == sCount(src, k) >= 4 /\ Lead(src, k, 4) = DOCTEST_CHARS

\* line k lies in the span of a token of the type
Within(k, type) ==
    \E i \in 1..Len(tokens) :
        tokens[i].type = type /\ tokens[i].lo <= k /\ k < tokens[i].hi

\* line k starts a Doctest token
StartsDoctest(k) ==
    \E i \in 1..Len(tokens) :
        tokens[i].type = "fence" /\ tokens[i].info = PYCON /\ tokens[i].lo = k

\* C19 as stated: no prompt line lies in the span of a code_block token and
\* every prompt line starts a Doctest token of its own
C19_EveryPrompt ==
    idx > 0 =>
       \A k \in 0..(LineMax(src) - 1) :
          Prompts(k) => ~Within(k, "code_block") /\ StartsDoctest(k)

\* C19, amended: no prompt line lies in the span of a code_block token, and
\* a prompt line starts a Doctest token of its own unless it lies in the
\* span of another token: a paragraph it continues, a fence
C19_Prompt ==
    idx > 0 =>
       \A k \in 0..(LineMax(src) - 1) :
          Prompts(k) =>
             /\ ~Within(k, "code_block")
             /\ StartsDoctest(k) <=>
                   ~\E i \in 1..Len(tokens) :
                        /\ tokens[i].lo <= k /\ k < tokens[i].hi
                        /\ ~(tokens[i].type = "fence" /\ tokens[i].info = PYCON
                               /\ tokens[i].lo = k)

\* an indented code block has stopped before a prompt line, which starts a
\* Doctest token
C19_Witness ==
    /\ idx > 0
    /\ \E k \in 1..(LineMax(src) - 1) :
          Prompts(k) /\ Within(k - 1, "code_block") /\ StartsDoctest(k)

\* the first line from j on that is no "... " line, hi at the latest
RECURSIVE InputEnd(_, _)
InputEnd(j, hi) ==
    IF j < hi /\ Lead(src, j, 4) = ELLIPSIS_CHARS THEN InputEnd(j + 1, hi) ELSE j

\* the first line from j on that ends a doctest of the indent: the end of
\* the document, an empty line, a line indented less, a prompt
RECURSIVE DoctestEnd(_, _)
DoctestEnd(j, indent) ==
    IF j >= LineMax(src) \/ isEmpty(src, j) \/ sCount(src, j) < indent
       \/ Lead(src, j, 4) = DOCTEST_CHARS
    THEN j
    ELSE DoctestEnd(j + 1, indent)

\* C20: the input span of a Doctest token is its prompt line and the run of
\* "... " lines right behind it, the output span is what is left of the
\* token, absent when nothing is left, and the token ends before the first
\* empty line, line indented less than the prompt line or next prompt
C20_Spans ==
    idx > 0 =>
       \A i \in 1..Len(tokens) :
          tokens[i].type = "fence" /\ tokens[i].info = PYCON =>
             /\ tokens[i].hi = DoctestEnd(tokens[i].lo + 1, sCount(src, tokens[i].lo))
             /\ tokens[i].input
                   = <<tokens[i].lo, InputEnd(tokens[i].lo + 1, tokens[i].hi)>>
             /\ tokens[i].output
                   = IF tokens[i].input[2] < tokens[i].hi
                     THEN <<tokens[i].input[2], tokens[i].hi>> ELSE <<>>

\* a Doctest token with a prompt line, a "... " line and a line of output
C20_Witness ==
    /\ idx > 0
    /\ \E i \in 1..Len(tokens) :
          /\ tokens[i].type = "fence" /\ tokens[i].info = PYCON
          /\ tokens[i].input = <<tokens[i].lo, tokens[i].lo + 2>>
          /\ tokens[i].output = <<tokens[i].lo + 2, tokens[i].lo + 3>>

\* the first line from j on that ends the scan of an indented block: the end
\* of the document, or a line with text that is indented less than 4 columns
\* or begins a doctest
RECURSIVE CodeStop(_)
CodeStop(j) ==
    IF j >= LineMax(src)
       \/ (~isEmpty(src, j) /\ (sCount(src, j) < 4 \/ Lead(src, j, 4) = DOCTEST_CHARS))
    THEN j
    ELSE CodeStop(j + 1)

\* the lines with text of the span lo..hi-1
TextLines(lo, hi) == {k \in lo..(hi - 1) : ~isEmpty(src, k)}

\* C21: a code_block token runs from its start line to just behind the last
\* line with text before the scan stops; first_indent and last_indent are
\* the indentation of its first and last line with text and min_indent is
\* the least indentation of its lines with text
C21_CodeBlock ==
    idx > 0 =>
       \A i \in 1..Len(tokens) :
          tokens[i].type = "code_block" =>
             LET t == tokens[i]
                 consumed == TextLines(t.lo, CodeStop(t.lo))
                 text == TextLines(t.lo, t.hi)
             IN  /\ consumed # {}
                 /\ t.hi = 1 + (CHOOSE k \in consumed : \A n \in consumed : n <= k)
                 /\ t.first_indent = sCount(src, MinOf(text, 0))
                 /\ t.last_indent = sCount(src, t.hi - 1)
                 /\ t.min_indent = MinOf({sCount(src, k) : k \in text}, 0)
                 /\ t.min_indent <= t.first_indent
                 /\ t.min_indent <= t.last_indent
                 /\ t.min_indent >= 4

\* a code_block of three lines with an empty line inside, whose first line
\* is indented deeper than its last
C21_Witness ==
    /\ idx > 0
    /\ \E i \in 1..Len(tokens) :
          /\ tokens[i].type = "code_block"
          /\ tokens[i].hi = tokens[i].lo + 3
          /\ isEmpty(src, tokens[i].lo + 1)
          /\ tokens[i].first_indent = 8
          /\ tokens[i].last_indent = 4
          /\ tokens[i].min_indent = 4

\* the configuration in which the prose literal quotes the doctests
DocstringMode ==
    ~cfg.include_doctest /\ cfg.include_docstring /\ cfg.include_markdown

\* the token is a Doctest token
IsDoctest(t) == t.type = "fence" /\ t.info = PYCON

\* C26: in docstring mode the handler of a Doctest token emits nothing and
\* leaves the read cursor, last_indent and the three flags of the
\* Environment; the lines of the token are emitted by a later prose run,
\* inside its literal
C26_Skipped ==
    /\ [][pc = "tokens" /\ idx <= Len(tokens) /\ IsDoctest(tokens[idx]) /\ DocstringMode =>
             /\ pc' = "tokens"
             /\ out' = out /\ runs' = runs
             /\ env'.pos = env.pos /\ env'.last_line = env.last_line
             /\ env'.last_indent = env.last_indent
             /\ Flags(env') = Flags(env)]_vars
    /\ [](Returned /\ DocstringMode =>
             \A i \in 1..Len(tokens) :
                IsDoctest(tokens[i]) =>
                   \E k \in 1..Len(runs) :
                      /\ runs[k].mode \in {"string", "quoted"}
                      /\ runs[k].lo <= tokens[i].lo /\ tokens[i].hi <= runs[k].hi
                      /\ SourceOf(RunOut(runs[k])) = Flatten(RunLines(runs[k])))

\* render_tokens has returned in docstring mode from a document with prose
\* before a Doctest token, and one prose run took both
C26_Witness ==
    /\ Returned /\ DocstringMode
    /\ \E i \in 1..Len(tokens), k \in 1..Len(runs) :
          /\ IsDoctest(tokens[i])
          /\ runs[k].mode = "string"
          /\ runs[k].lo < tokens[i].lo /\ tokens[i].hi <= runs[k].hi

-----------------------------------------------------------------------------
(* Properties of the fence dispatch *)

\* a step that hands a fence token to Python.fence
FenceStep ==
    /\ pc = "generate" /\ idx <= Len(tokens) /\ idx' = idx + 1
    /\ tokens[idx].type = "fence"

\* what the step emitted
FenceOut == SubSeq(out', Len(out) + 1, Len(out'))

\* the fence handler renders the token: a backtick fence that is no doctest,
\* under an allow-list that is not empty
Tangles(t) ==
    t.markup = TICK /\ ~t.is_doctest /\ cfg.fenced_code_blocks # {}

\* the first word of the info-string is in the method map or is itself a
\* module:function reference
Resolves(t) ==
    \/ get_lang(t.info) \in DOMAIN fence_methods
    \/ \E i \in 1..Len(get_lang(t.info)) : get_lang(t.info)[i] = COLON

Allowed(t) == get_lang(t.info) \in cfg.fenced_code_blocks

\* the lines between the first and the last line of the token, without
\* n columns each
Between(t, n) ==
    Flatten([k \in 1..Max(0, t.hi - t.lo - 2) |->
                IF Len(src[t.lo + 1 + k]) > 1 THEN From(src[t.lo + 1 + k], n)
                ELSE src[t.lo + 1 + k]])

\* a fragment holds one quoted literal of the fence and its source
\* characters are those of body
QuotedArgument(f, body) ==
    LET q == {i \in 1..Len(f) : f[i][2] = "fq"}
    IN  /\ Tagged(f, "fq") = QUOTE \o QUOTE
        /\ \E a, b \in q :
              /\ \A i \in q : a <= i /\ i <= b
              /\ SourceOf(SubSeq(f, a + 3, b - 3)) = body
              /\ \A i \in 1..Len(f) : f[i][2] = "call" => i < a

\* rendered as a call of the loader with the body as quoted argument
AsCall(f, t) ==
    /\ Tagged(f, "call") # <<>>
    /\ Tagged(f, "code") = <<>>
    /\ QuotedArgument(f, Between(t, t.min_indent))

\* rendered as a plain quoted string without a loader call
AsString(f, t) ==
    /\ Tagged(f, "call") = <<>>
    /\ Tagged(f, "code") = <<>>
    /\ QuotedArgument(f, Between(t, t.min_indent))

\* rendered as code: the fence lines behind comment markers, no quoted
\* literal of the fence and no loader; the body of a fence that is not a
\* cell magic is copied without min_indent columns
AsCode(f, t) ==
    /\ Tagged(f, "call") = <<>>
    /\ Tagged(f, "fq") = <<>>
    /\ Tagged(f, "code") # <<>>
    /\ \E a \in 1..Len(f) :
          /\ f[a][2] = "code"
          /\ \A i \in 1..(a - 1) : f[i][2] # "code"
          /\ ~t.is_magic =>
                SourceOf(From(f, a - 1))
                   = src[t.lo + 1] \o Between(t, env'.min_indent)
                        \o (IF t.hi - t.lo > 1 THEN src[t.hi] ELSE <<>>)

\* C10 as stated, for the fences the handler renders: the method map or a
\* module:function reference comes first and makes the fence a call of the
\* loader with the body as its quoted argument, then the allow-list makes
\* it code, and what is left is a plain quoted string
C10_MethodsFirst ==
    [][FenceStep /\ Tangles(tokens[idx]) =>
          IF Resolves(tokens[idx]) THEN AsCall(FenceOut, tokens[idx])
          ELSE IF Allowed(tokens[idx]) THEN AsCode(FenceOut, tokens[idx])
          ELSE AsString(FenceOut, tokens[idx])]_vars

\* C10, amended: for a backtick fence that is no doctest under an allow-list
\* that is not empty, the allow-list comes first and makes the fence code,
\* then the method map or a module:function reference makes it a call of the
\* loader with the lines between the token's first and last line as quoted
\* argument, and what is left is a plain quoted string; any other fence
\* emits nothing in the handler
C10_AllowListFirst ==
    [][FenceStep =>
          IF ~Tangles(tokens[idx]) THEN out' = out
          ELSE IF Allowed(tokens[idx]) THEN AsCode(FenceOut, tokens[idx])
          ELSE IF Resolves(tokens[idx]) THEN AsCall(FenceOut, tokens[idx])
          ELSE AsString(FenceOut, tokens[idx])]_vars

\* a json fence was rendered as code under an allow-list that names json
C10_Witness ==
    /\ pc = "generate" /\ idx > 1
    /\ tokens[idx - 1].type = "fence"
    /\ Tangles(tokens[idx - 1])
    /\ get_lang(tokens[idx - 1].info) = JSON
    /\ Resolves(tokens[idx - 1]) /\ Allowed(tokens[idx - 1])
    /\ Tagged(out, "code") # <<>>
    /\ Tagged(out, "call") = <<>>


\* a fence the handler hands to fence_noncode without a loader: neither in
\* the method map, nor a module:function reference, nor in the allow-list
Plain(t) == Tangles(t) /\ ~Resolves(t) /\ ~Allowed(t)

\* C11: for a fence whose info-string is not in the method map, is no
\* module:function reference and is no code language, get_fence_method
\* returns the empty method, fence_noncode emits the body as a parenthesized
\* quoted literal without a call, the cursor ends at the token's end line,
\* and nothing is raised
C11_PlainString ==
    [][FenceStep /\ Plain(tokens[idx]) =>
          /\ get_fence_method(tokens[idx]) = <<>>
          /\ AsString(FenceOut, tokens[idx])
          /\ Tagged(FenceOut, "fparen") = <<"(", ")">>
          /\ env'.last_line = tokens[idx].hi
          /\ pc' # "raised"]_vars


\* the token list without the next_code of its tokens
Bare(toks) == [i \in 1..Len(toks) |-> [toks[i] EXCEPT !.next_code = None]]

\* the code tokens behind index i
CodeBehind(i) ==
    {j \in (i + 1)..Len(tokens) : lang_is_code_block(cfg, tokens[j])}

\* C17: after postlex the next_code of every token is the first code token
\* behind it, None when no code token follows, and the list holds the
\* tokens of the parse in their order
C17_NextCode ==
    pc # "parse" =>
       /\ \E doctest \in BOOLEAN : Bare(tokens) = lang_parse(src, doctest)
       /\ \A i \in 1..Len(tokens) :
             IF CodeBehind(i) = {} THEN tokens[i].next_code = None
             ELSE tokens[i].next_code =
                     Bare(tokens)[CHOOSE j \in CodeBehind(i) :
                                     \A k \in CodeBehind(i) : j <= k]

\* a paragraph and a fence that is no code stand before a code fence, and
\* nothing stands behind it
C17_Witness ==
    /\ pc = "generate" /\ Len(tokens) = 3
    /\ ~lang_is_code_block(cfg, tokens[1])
    /\ ~lang_is_code_block(cfg, tokens[2])
    /\ lang_is_code_block(cfg, tokens[3])
    /\ tokens[1].next_code.lo = tokens[3].lo
    /\ tokens[3].next_code = None

\* C28: the fence handler renders a fence token as code exactly when
\* is_code_block classifies it as code
C28_Agree ==
    [][FenceStep /\ pc' = "generate" =>
          (Tagged(FenceOut, "code") # <<>> /\ Tagged(FenceOut, "fq") = <<>>)
             <=> lang_is_code_block(cfg, tokens[idx])]_vars

-----------------------------------------------------------------------------
(* Properties of the rules of lex.py *)

\* the line is a front matter delimiter: three markers at column 0
Delimits(k) ==
    sCount(src, k) = 0 /\ Text(src, k) \in {<<"-", "-", "-">>, <<"+", "+", "+">>}

\* a line behind k closes the front matter line k opens: the same three
\* markers, indented by less than 4 columns
ClosedBehind(k) ==
    \E j \in (k + 1)..(LineMax(src) - 1) :
        sCount(src, j) < 4 /\ Text(src, j) = Text(src, k)

\* C12: on an opening delimiter without a closing delimiter line before the
\* end of the document the front matter rule returns no-match, pushes no
\* token and leaves the current line, the tokens, lineMax and parentType as
\* they were, and the rules behind it parse the line
C12_NoMatch ==
    [][pc = "front_matter" /\ Delimits(env.line) /\ ~ClosedBehind(env.line) =>
          tokens' = tokens /\ env' = env /\ pc' = "ordinary"]_vars

\* the rule has returned no-match on an unclosed opening delimiter at the
\* start of the document
C12_Witness ==
    /\ pc = "ordinary" /\ tokens = <<>> /\ env.line = 0
    /\ Delimits(0) /\ ~ClosedBehind(0)
    /\ LineMax(src) > 1


\* a run of three or more of one marker, "-" or "+", and nothing else
MarkerRun(t) ==
    Len(t) >= 3 /\ t[1] \in {"-", "+"} /\ \A i \in 1..Len(t) : t[i] = t[1]

\* the front matter rule is at a place where it may match: an unindented
\* line with no token before it but a shebang
MayOpen ==
    /\ pc = "front_matter"
    /\ sCount(src, env.line) = 0
    /\ tokens = <<>> \/ (Len(tokens) = 1 /\ tokens[1].type = "shebang")

\* the rule has pushed a front_matter token in the step
Opens ==
    /\ Len(tokens') = Len(tokens) + 1
    /\ tokens'[Len(tokens')].type = "front_matter"
    /\ tokens'[Len(tokens')].lo = env.line

\* C22 as stated: a line of three or more markers opens front matter that a
\* later line of three or more of the same marker closes
C22_ThreeOrMore ==
    [][/\ MayOpen
       /\ MarkerRun(Text(src, env.line))
       /\ \E j \in (env.line + 1)..(LineMax(src) - 1) :
             /\ sCount(src, j) < 4
             /\ MarkerRun(Text(src, j))
             /\ Text(src, j)[1] = Text(src, env.line)[1]
       => Opens]_vars

\* C22: the front matter rule opens on a line that is exactly "---" or "+++"
\* and closes on the first later line, indented by less than 4 columns,
\* whose text is exactly the same three markers; a line of four markers
\* neither opens nor closes front matter
C22_ExactlyThree ==
    [][pc = "front_matter" =>
          /\ Opens <=> (MayOpen /\ Delimits(env.line) /\ ClosedBehind(env.line))
          /\ ~Opens => tokens' = tokens
          /\ Opens =>
                LET t == tokens'[Len(tokens')]
                IN  /\ sCount(src, t.hi - 1) < 4
                    /\ Text(src, t.hi - 1) = Text(src, t.lo)
                    /\ \A j \in (t.lo + 1)..(t.hi - 2) :
                          ~(sCount(src, j) < 4 /\ Text(src, j) = Text(src, t.lo))]_vars

\* a front_matter token over three lines, the one between its delimiters a
\* run of four markers
C22_Witness ==
    /\ pc = "line"
    /\ Len(tokens) = 1 /\ tokens[1].type = "front_matter"
    /\ tokens[1].lo = 0 /\ tokens[1].hi = 3
    /\ Text(src, 1) = <<"-", "-", "-", "-">>
    /\ Text(src, 0) = <<"-", "-", "-">>

ShebangLine(k) ==
    LET Reads(t) == Len(t) >= 3 /\ t[1] = "#" /\ t[2] = "!" /\ ~IsSpace(t[3])
    IN  Indent(LineAt(src, k)) = 0 /\ Reads(Body(LineAt(src, k)))

\* C24: the shebang rule matches exactly on a first line that reads "#!" and
\* a token, with or without an argument; a match pushes one token and moves
\* the parser on by one line, a no-match leaves the tokens and the state
C24_Shebang ==
    [][pc = "shebang" =>
          IF env.line = 0 /\ ShebangLine(0)
          THEN /\ Len(tokens') = Len(tokens) + 1
               /\ tokens'[Len(tokens')].type = "shebang"
               /\ env' = [env EXCEPT !.line = 1]
          ELSE tokens' = tokens /\ env' = env]_vars

-----------------------------------------------------------------------------
(* Properties of the parser cache *)

\* C25: once the cached parser is constructed and configured, constructing
\* further instances and parsing leave its rule chain and its options as
\* they are
C25_Immutable ==
    [][idx >= 1 => env'.cache = env.cache]_vars

\* the instances that share the parser read every document as the first of
\* them did
C25_SameParse ==
    idx >= 1 /\ src # <<>> =>
       tokens = ChainParse(initalize_parser_defaults(
                              get_markdown_it([cache |-> None]).cache, 1).block, src)

-----------------------------------------------------------------------------
(* Properties of get_block *)

\* C27: last_line is the number of readline calls so far and never goes
\* down; get_block(env, stop) returns for every stop, also one behind the
\* end of the source, and leaves last_line at the larger of its value
\* before and stop
C27_LastLine ==
    /\ [](env.last_line = idx)
    /\ [][env'.last_line >= env.last_line]_vars
    /\ [][ret' # None /\ ret'.op = "get_block" =>
             env'.last_line = Max(env.last_line, ret'.stop)]_vars

\* get_block has returned from a stop behind the end of a source with lines
C27_Witness ==
    /\ ret # None /\ ret.op = "get_block"
    /\ src # <<>> /\ ret.stop > Len(src)
    /\ env.last_line = ret.stop /\ env.pos = Len(src)

-----------------------------------------------------------------------------
(* Properties of render_cells *)

\* the markers of an hr token: the length of its markup without the spaces
Markers(t) == Len(SelectSeq(t.markup, LAMBDA x : x # SP))

\* the hr token ends a cell of walk_cells
EndsCell(t) == \E i \in 1..Len(ret.cells) : ret.cells[i].next = t

C14_CarryOver ==
    [][pc = "cell" /\ ret.k > 0 /\ pc' = "tokens" =>
          /\ env'.pos = ret.prior.pos
          /\ env'.last_line = ret.prior.last_line
          /\ env'.last_indent = ret.prior.last_indent
          /\ env'.colon_block = ret.prior.colon_block
          /\ env'.quoted_block = ret.prior.quoted_block
          /\ env'.continued = ret.prior.continued]_vars

\* the source line at which the k-th cell of render_cells began to read
CellStart(k) == IF k = 1 THEN 0 ELSE ret.cells[k - 1].next.lo

\* C30: with the thematic breaks kept, render_cells partitions the source
\* lines among its cells: every cell after the first begins with the hr
\* line that ended the cell before it, and the cells of the base Renderer,
\* joined, are the source unchanged, through its last line
C30_Partition ==
    pc = "done" /\ ret.base /\ ret.include_hr =>
       /\ Len(ret.outs) = Len(ret.cells)
       /\ \A k \in 2..Len(ret.outs) :
             /\ Len(ret.outs[k]) >= Len(src[CellStart(k) + 1])
             /\ Chars(SubSeq(ret.outs[k], 1, Len(src[CellStart(k) + 1])))
                   = src[CellStart(k) + 1]
       /\ Chars(Flatten(ret.outs)) = Flatten(src)
       /\ env.pos = Len(src)

\* where walk_cells yields a cell at all, which it does unless every token
\* of the document is an hr of at most cell_hr_length markers, the cells of
\* the base Renderer give the source back
C30_SomeCell ==
    pc = "done" /\ ret.base /\ ret.include_hr /\ ret.cells # <<>> =>
       /\ \A k \in 2..Len(ret.outs) :
             /\ Len(ret.outs[k]) >= Len(src[CellStart(k) + 1])
             /\ Chars(SubSeq(ret.outs[k], 1, Len(src[CellStart(k) + 1])))
                   = src[CellStart(k) + 1]
       /\ Chars(Flatten(ret.outs)) = Flatten(src)
       /\ env.pos = Len(src)

=============================================================================
